---- MODULE Spec2Model ----
(***************************************************************************)
(* Capture-to-result orchestration of the IALab component                  *)
(* (src/unnamed/part_000): the step controller, the run pipeline of        *)
(* handleCapture with its fan-out stages, the simulation retry loop, the   *)
(* abort controller / deadline timer, and the retry affordance carried by  *)
(* the failure toast.                                                      *)
(*                                                                         *)
(* Execution model.  JavaScript runs one task at a time, so every action   *)
(* below is one synchronous segment of the code: from an event (a user     *)
(* gesture, a timer, a settled promise) up to the next await.  State       *)
(* updates of one segment are batched by React and appear together.        *)
(*                                                                         *)
(* Closures.  handleCapture is a useCallback closure: the values of        *)
(* isProcessing and retryCount it reads are those of the render that       *)
(* created it.  The capture widget always holds the closure of the latest  *)
(* render; the retry affordance of a failure toast calls the closure of    *)
(* the run that failed (the name handleCapture inside the callback is the  *)
(* binding of that same render).                                           *)
(*                                                                         *)
(* Time.  The model is untimed: the 30 s deadline of a run, the 7 s life   *)
(* of a toast, the backoff waits and the remote calls may end in any       *)
(* order.  The unmount cleanup (lines 134-140) aborts the controller the   *)
(* ref holds, which is what the deadline callback does; it has no action   *)
(* of its own.                                                             *)
(*                                                                         *)
(* Specifications.  Spec is the component under any interleaving of user   *)
(* gestures and settlements; FairSpec adds that every awaited promise      *)
(* settles; RetryChainSpec follows one submission through its retries;     *)
(* CacheSpec is a CacheManager of src/performance.ts under any sequence    *)
(* of calls, with Date.now() as a clock that a Tick advances.              *)
(* LimiterSpec, CsrfSpec and SessionSpec are the RateLimiter, the          *)
(* CSRFProtection and the SessionManager of src/unnamed/part_001 under any *)
(* sequence of calls, timers and passing time; WorkersSpec is a            *)
(* WorkerManager with its workers' events and timeouts, and BatchSpec one  *)
(* call of RequestOptimizer.batchRequests with its requests' promises.     *)
(***************************************************************************)
EXTENDS Integers, Sequences, FiniteSets, TLC

\* ------------------------------------------------------------------ bounds
\* Calls of handleCapture that pass the entry guard, under Spec.
MaxStarts == 3

\* Size of the run table: the calls that pass the entry guard under any
\* specification of this module.
MaxRuns == 5

\* Bound on the same count under the retry-chain specification.
MaxChainStarts == 5

\* Bound on the same count under the fairness specification.
MaxFairStarts == 2

\* Date.now() takes the values 0..MaxNow.
MaxNow == 2

\* Cap on an entry's access count (CacheEntry.frequency).
MaxFrequency == 1

\* The maxSize and maxAge the cache under test is constructed with.
CacheMaxSize == 4
CacheMaxAge == 1

\* The maxRequests and windowMs of the rate limit configuration under test.
LimiterMaxRequests == 2
LimiterWindowMs == 1

\* Tokens generated in one behaviour.
MaxTokens == 3

\* startSession calls in one behaviour, and the length of a behaviour of the
\* session manager in units of warningTime.
MaxListeners == 2
MaxSessionTicks == 8

\* executeTask calls in one behaviour.
MaxCalls == 3

\* Length of the request list given to batchRequests, and its batchSize.
MaxRequests == 5
MaxBatchSize == 3

\* --------------------------------------------------------------- constants
\* SessionManager's timeouts in ms (part_001 lines 648-649).
sessionTimeout == 30 * 60 * 1000
warningTime == 5 * 60 * 1000

\* The life of a CSRF token in ms (part_001 line 523).
TokenLifetimeMs == 3600000

\* (variant: one attempt too many)
MAX_RETRY_ATTEMPTS_OffByOne == 3 + 1
MAX_RETRY_ATTEMPTS == 3

\* ---------------------------------------------------------- optional values
\* null / undefined is the empty sequence, a present value x is <<x>>
None == <<>>
Some(x) == <<x>>

\* ------------------------------------------------------------------ inputs
Photos == {"A", "B"}
\* <<rest, smile>> as handed to handleCapture; "" is a missing photo
PhotoPairs == {<<"A", "B">>, <<"", "B">>}
Jpeg == [A |-> "jpegA", B |-> "jpegB"]
OptimizedImages == Photos \cup {Jpeg[p] : p \in Photos}
LandmarksOf(img) == IF img \in {"A", "jpegA"} THEN "lmA" ELSE "lmB"
\* <<smile size, rest size>>, each <<width, height>>
ImageSizePairs == {<<<<1024, 768>>, <<1024, 768>>>>, <<<<1024, 768>>, <<320, 240>>>>,
                   <<<<2000, 800>>, <<1024, 768>>>>}
LoadOutcomes == {<<TRUE, TRUE>>, <<TRUE, FALSE>>, <<FALSE, TRUE>>}
Contacts == {[email |-> "a@example.com"]}

RunIds == 1..MaxRuns

\* Session ids ('default' is what secureApiCall uses when none is stored,
\* line 780), and the tokens a caller may present: those generated so far
\* (numbered in the order of their generation; two calls of
\* generateRandomToken never return the same 256 random bits) and 0, a token
\* that was never generated.
SessionIds == {"default", "s1"}
TokenValues == 0..MaxTokens

\* Worker names passed to executeTask, and the calls of executeTask in the
\* order in which they are made.
WorkerNames == {"w1", "w2"}
CallIds == 1..MaxCalls

\* Positions in the request list of batchRequests; request k resolves with
\* the value k.  Batch sizes are positive.
RequestIds == 1..MaxRequests
BatchSizes == 1..MaxBatchSize

\* RateLimitConfig.identifier values, and the configuration the callers of
\* each pass to checkLimit.
Identifiers == {"api", "upload"}
ConfigOf(id) ==
    [maxRequests |-> IF id = "api" THEN LimiterMaxRequests ELSE 1,
     windowMs |-> LimiterWindowMs,
     identifier |-> id]

VARIABLES
    step, restImage, smileImage, idealImage, analysis, metrics, landmarks,
    contactData, simulationData, isProcessing, retryCount,
    faceLandmarkerRef, abortControllerRef,
    aborted, runs, started, toasts, notice, event, landmarkerInit,
    \* performance.ts: a CacheManager's fields (lines 27-29), the clock read by
    \* Date.now(), whether the thread is stuck in a loop that makes no
    \* progress, and the last cache call with what it returned
    cache, totalSize, config, now, hung, cacheResult,
    \* part_001: a RateLimiter's requests map (line 409), and for each
    \* identifier the window that its first admitted request opened with the
    \* number of requests admitted in it, and the last limiter call with what
    \* it returned
    requests, limiterWindow, limiterResult,
    \* part_001: a CSRFProtection's tokens map (line 515), the number of
    \* tokens generated so far, for each session the token generated last
    \* with the time of its generation, and the last call with what it
    \* returned
    tokens, generated, lastGenerated, csrfResult,
    \* part_001: a SessionManager's two timer fields (lines 650-651), the
    \* number of startSession calls whose activity listeners are registered
    \* on the document, whether the session is being monitored (startSession
    \* was called and clearSession was not called since), and the notice the
    \* last step showed
    sessionTimer, warningTimer, listeners, monitoring, sessionNotice,
    \* performance.ts: a WorkerManager's workers map (line 401) as the set of
    \* names that have a worker, for each worker the executeTask call whose
    \* onmessage / onerror handlers it carries and the messages posted to it
    \* and not yet answered, and the promise and timeout of each call
    workers, handlerOwner, inbox, tasks,
    \* performance.ts: one call of RequestOptimizer.batchRequests (lines
    \* 532-545): the promise it returned, requests.length, batchSize, the loop
    \* variable i, what became of each request's promise, and results
    batchCall, requestCount, batchSize, batchI, requestStatus, results

reactVars == <<step, restImage, smileImage, idealImage, analysis, metrics,
               landmarks, contactData, simulationData, isProcessing, retryCount>>
ialabVars == <<step, restImage, smileImage, idealImage, analysis, metrics, landmarks,
          contactData, simulationData, isProcessing, retryCount,
          faceLandmarkerRef, abortControllerRef,
          aborted, runs, started, toasts, notice, event, landmarkerInit>>
limiterVars == <<requests, limiterWindow, limiterResult>>
csrfVars == <<tokens, generated, lastGenerated, csrfResult>>
sessionVars == <<sessionTimer, warningTimer, listeners, monitoring, sessionNotice>>
workerVars == <<workers, handlerOwner, inbox, tasks>>
batchVars == <<batchCall, requestCount, batchSize, batchI, requestStatus, results>>
cacheVars == <<cache, totalSize, config, hung, cacheResult>>
outsideCache == <<batchVars, ialabVars, limiterVars, csrfVars, sessionVars, workerVars>>
outsideLimiter == <<batchVars, ialabVars, cacheVars, csrfVars, sessionVars, workerVars>>
outsideCsrf == <<batchVars, ialabVars, cacheVars, limiterVars, sessionVars, workerVars>>
outsideSession == <<batchVars, ialabVars, cacheVars, limiterVars, csrfVars, workerVars>>
outsideWorkers ==
    <<ialabVars, cacheVars, now, limiterVars, csrfVars, sessionVars, batchVars>>
outsideBatch ==
    <<ialabVars, cacheVars, now, limiterVars, csrfVars, sessionVars, workerVars>>
utilVars ==
    <<cacheVars, now, limiterVars, csrfVars, sessionVars, workerVars, batchVars>>
vars == <<ialabVars, utilVars>>

\* ------------------------------------------------------------ pure helpers
\* (variant: a failed load resolves with an empty image)
optimizeImage_EmptyOnError(base64, loads, hasCtx) ==
    IF ~loads THEN ""
    ELSE IF ~hasCtx THEN base64
    ELSE Jpeg[base64]

\* optimizeImage (lines 145-179): resolves with the re-encoded JPEG, or with
\* the input unchanged when the image fails to load or no 2D context exists.
optimizeImage(base64, loads, hasCtx) ==
    IF ~loads THEN base64
    ELSE IF ~hasCtx THEN base64
    ELSE Jpeg[base64]

\* validateImageQuality (lines 184-198): the boolean result and the warning
\* toast it shows ("none" when it shows nothing).
validateImageQuality(width, height) ==
    IF width < 640 \/ height < 480
    THEN [valid |-> FALSE, notice |-> "low_resolution"]
    ELSE IF 2 * width < height \/ width > 2 * height
         THEN [valid |-> TRUE, notice |-> "aspect_ratio"]
         ELSE [valid |-> TRUE, notice |-> "none"]

\* Fallback metrics built in the landmark catch block (lines 304-317).
\* Ratios are in hundredths (0.8 is 80, 0.33 is 33); mm are whole numbers.
FallbackMetricsCatch ==
    [smileArc |-> "consonante",
     gingival |-> [mm |-> 1, class |-> "media"],
     midline |-> [mm |-> 0, side |-> "centrado"],
     buccalRatio |-> 80,
     facialMidline |-> [mm |-> 0, side |-> "centrado"],
     midlineCoincidence |-> [deviation |-> 0, status |-> "coincidente"],
     facialProportions |-> [upperThird |-> 33, middleThird |-> 34,
                            lowerThird |-> 33, isBalanced |-> TRUE]]

\* (variant: a wrong buccal ratio in the no-landmarker record)
FallbackMetricsNoLandmarker_WrongRatio ==
    [smileArc |-> "consonante",
     gingival |-> [mm |-> 1, class |-> "media"],
     midline |-> [mm |-> 0, side |-> "centrado"],
     buccalRatio |-> 75,
     facialMidline |-> [mm |-> 0, side |-> "centrado"],
     midlineCoincidence |-> [deviation |-> 0, status |-> "coincidente"],
     facialProportions |-> [upperThird |-> 33, middleThird |-> 34,
                            lowerThird |-> 33, isBalanced |-> TRUE]]

\* Fallback metrics used when no landmarker is available (lines 321-334).
FallbackMetricsNoLandmarker ==
    [smileArc |-> "consonante",
     gingival |-> [mm |-> 1, class |-> "media"],
     midline |-> [mm |-> 0, side |-> "centrado"],
     buccalRatio |-> 80,
     facialMidline |-> [mm |-> 0, side |-> "centrado"],
     midlineCoincidence |-> [deviation |-> 0, status |-> "coincidente"],
     facialProportions |-> [upperThird |-> 33, middleThird |-> 34,
                            lowerThird |-> 33, isBalanced |-> TRUE]]

\* The metrics library (@/lib/metrics) is not part of the sources at hand: the
\* four functions below follow the specification (section 4.3): a record of
\* the fixed shape, and a chain of pure functions of it.
computeMetrics(restLm, smileLm, imgW, imgH) ==
    [smileArc |-> IF smileLm = "lmA" THEN "plano" ELSE "consonante",
     gingival |-> [mm |-> IF restLm = "lmA" THEN 3 ELSE 2, class |-> "alta"],
     midline |-> [mm |-> 1, side |-> "derecha"],
     buccalRatio |-> 75,
     facialMidline |-> [mm |-> 0, side |-> "centrado"],
     midlineCoincidence |-> [deviation |-> 1, status |-> "desviado"],
     facialProportions |-> [upperThird |-> 30, middleThird |-> 36,
                            lowerThird |-> 34, isBalanced |-> FALSE]]

analyzeFaceCharacteristics(m) ==
    [balanced |-> m.facialProportions.isBalanced,
     arc |-> m.smileArc,
     gingivalClass |-> m.gingival.class]

generateSmileRecommendations(faceAnalysis, m) ==
    (IF faceAnalysis.arc = "plano" THEN <<"contorno_incisal">> ELSE <<>>)
    \o (IF m.gingival.mm > 2 THEN <<"gingivoplastia">> ELSE <<>>)
    \o (IF m.midline.mm > 0 THEN <<"correccion_linea_media">> ELSE <<>>)

generateAnalysisText(faceAnalysis, m, recommendations) ==
    IF Len(recommendations) = 0 THEN "sonrisa armonica"
    ELSE IF Len(recommendations) = 1 THEN "una recomendacion"
    ELSE IF Len(recommendations) = 2 THEN "dos recomendaciones"
    ELSE "tres recomendaciones"

\* (variant: the text is generated from a record other than the one published)
AnalysisTextOf_FromFallback(m) ==
    LET faceAnalysis == analyzeFaceCharacteristics(FallbackMetricsCatch)
        recommendations == generateSmileRecommendations(faceAnalysis, FallbackMetricsCatch)
    IN  generateAnalysisText(faceAnalysis, FallbackMetricsCatch, recommendations)

AnalysisTextOf(m) ==
    LET faceAnalysis == analyzeFaceCharacteristics(m)
        recommendations == generateSmileRecommendations(faceAnalysis, m)
    IN  generateAnalysisText(faceAnalysis, m, recommendations)

\* ------------------------------------------------------- remote simulation
\* Payloads the remote function can return as `data`; "" stands for an absent
\* (or empty) string field, None for an absent field.
PayloadFull ==
    [simulatedImage |-> "sim1", idealImage |-> "ideal1",
     facialAnalysis |-> Some("fa1"), qualityScore |-> Some(90),
     warnings |-> Some(<<>>)]
PayloadMinimal ==
    [simulatedImage |-> "sim2", idealImage |-> "",
     facialAnalysis |-> None, qualityScore |-> None, warnings |-> None]
PayloadNoImage ==
    [simulatedImage |-> "", idealImage |-> "",
     facialAnalysis |-> None, qualityScore |-> None,
     warnings |-> Some(<<"low_quality">>)]
PayloadIdealOnly ==
    [simulatedImage |-> "", idealImage |-> "ideal1",
     facialAnalysis |-> Some("fa1"), qualityScore |-> Some(40),
     warnings |-> None]
Payloads == {PayloadFull, PayloadMinimal, PayloadNoImage, PayloadIdealOnly}
UsablePayloads == {p \in Payloads : p.simulatedImage # ""}

\* What supabase.functions.invoke settles with: {data, error}.  A rejected
\* call (network failure, aborted signal) takes the same path as error.
ErrorResponse == [error |-> TRUE, data |-> None]
EmptyResponse == [error |-> FALSE, data |-> None]
Responses ==
    {ErrorResponse, EmptyResponse}
    \cup {[error |-> FALSE, data |-> Some(p)] : p \in Payloads}

UnavailableMarker ==
    [facialAnalysis |-> None, qualityScore |-> None,
     warnings |-> Some(<<"simulation_unavailable">>)]

\* (variant: the fallback branch sets no ideal image)
ProcessSimulationResults_NoIdealOnFallback(simulationResult, optimizedSmile, curSmileImage) ==
    IF simulationResult # None /\ simulationResult[1].simulatedImage # ""
    THEN [smileImage |-> simulationResult[1].simulatedImage,
          idealImage |-> IF simulationResult[1].idealImage # ""
                         THEN simulationResult[1].idealImage
                         ELSE simulationResult[1].simulatedImage,
          simulationData |-> Some([facialAnalysis |-> simulationResult[1].facialAnalysis,
                                   qualityScore |-> simulationResult[1].qualityScore,
                                   warnings |-> simulationResult[1].warnings]),
          notice |-> "none"]
    ELSE [smileImage |-> curSmileImage,
          idealImage |-> "",
          simulationData |-> Some(UnavailableMarker),
          notice |-> "simulation_unavailable"]

\* (variant: the optimized photo, not the simulated image, stands in for a
\* missing idealImage)
ProcessSimulationResults_IdealFromPhoto(simulationResult, optimizedSmile, curSmileImage) ==
    IF simulationResult # None /\ simulationResult[1].simulatedImage # ""
    THEN [smileImage |-> simulationResult[1].simulatedImage,
          idealImage |-> IF simulationResult[1].idealImage # ""
                         THEN simulationResult[1].idealImage
                         ELSE optimizedSmile,
          simulationData |-> Some([facialAnalysis |-> simulationResult[1].facialAnalysis,
                                   qualityScore |-> simulationResult[1].qualityScore,
                                   warnings |-> simulationResult[1].warnings]),
          notice |-> "none"]
    ELSE [smileImage |-> curSmileImage,
          idealImage |-> optimizedSmile,
          simulationData |-> Some(UnavailableMarker),
          notice |-> "simulation_unavailable"]

\* Lines 379-400: what the run publishes for a simulation result
\* (None is null).  The smile image is left as it is on the fallback branch.
ProcessSimulationResults(simulationResult, optimizedSmile, curSmileImage) ==
    IF simulationResult # None /\ simulationResult[1].simulatedImage # ""
    THEN [smileImage |-> simulationResult[1].simulatedImage,
          idealImage |-> IF simulationResult[1].idealImage # ""
                         THEN simulationResult[1].idealImage
                         ELSE simulationResult[1].simulatedImage,
          simulationData |-> Some([facialAnalysis |-> simulationResult[1].facialAnalysis,
                                   qualityScore |-> simulationResult[1].qualityScore,
                                   warnings |-> simulationResult[1].warnings]),
          notice |-> "none"]
    ELSE [smileImage |-> curSmileImage,
          idealImage |-> optimizedSmile,
          simulationData |-> Some(UnavailableMarker),
          notice |-> "simulation_unavailable"]

\* One iteration of the retry loop (lines 350-375) on the settled call:
\* "wait" (caught, backoff follows), "next" (falls through to the next
\* iteration at once), "break" (data kept as simulationResult), "exhausted"
\* (the loop ends without a result).
LoopStep(resp, attempt) ==
    IF resp.error
    THEN IF attempt < MAX_RETRY_ATTEMPTS - 1 THEN "wait" ELSE "exhausted"
    ELSE IF resp.data # None THEN "break"
    ELSE IF attempt + 1 < MAX_RETRY_ATTEMPTS THEN "next" ELSE "exhausted"

\* Line 372: the backoff before the next attempt, in milliseconds.
BackoffDelay(attempt) == 1000 * (attempt + 1)

\* Line 414: whether the failure toast carries the retry affordance.
OffersRetry(cRetry) == cRetry < MAX_RETRY_ATTEMPTS - 1

\* ------------------------------------------------------------------- runs
\* One execution of handleCapture past its guard.  rest, smile, cIsProcessing
\* and cRetry are the arguments and the closure values of the call; chain
\* counts the executions on one photo pair (1 for a submission, one more for
\* each retry-affordance activation); calls counts the remote calls issued.
IdleRun ==
    [pc |-> "idle", rest |-> "", smile |-> "", cIsProcessing |-> FALSE,
     cRetry |-> 0, chain |-> 0,
     optimizedRest |-> "", optimizedSmile |-> "",
     smileLandmarks |-> None, calculatedMetrics |-> None,
     attempt |-> 0, signal |-> 0, timer |-> "none", calls |-> 0]

\* A run that has returned: its locals are gone.  The closure values (rest,
\* smile, cIsProcessing, cRetry, and with them chain) live on only in the
\* retry affordance of its toast.  Its deadline timer has been disarmed (line
\* 377 on the success path, line 408 in the outer catch).
Returned(run, keepClosure) ==
    IF keepClosure
    THEN [IdleRun EXCEPT !.pc = "done", !.rest = run.rest, !.smile = run.smile,
                         !.cIsProcessing = run.cIsProcessing, !.cRetry = run.cRetry,
                         !.chain = run.chain]
    ELSE [IdleRun EXCEPT !.pc = "done"]

\* Abort controllers still referenced: by the ref, by a run in flight (its own
\* controller) or by a remote call in flight (the signal it was given).  The
\* others are unreachable objects and are dropped from `aborted`.
Referenced(ref, rs) ==
    {ref} \cup {r \in RunIds : rs[r].pc \notin {"idle", "done"}}
          \cup {rs[r].signal : r \in RunIds}

InFlight == {r \in RunIds : runs[r].pc \notin {"idle", "done"}}

\* What the step just taken did to a run, for stating properties: kind is
\* "invoke" (a remote call was issued), "wait" (a backoff wait was begun),
\* "completed" or "failed" (the run returned), "none" otherwise.  response is
\* the response of the remote call that settled in this step, if one did; ms
\* the length of the wait begun; attempt the loop index the step was taken at;
\* invokes the number of remote calls the run has made; chain its place in its
\* retry chain; cancelled whether the run's own abort controller had been
\* aborted before the step; deadlineFired whether its deadline timer had fired.
NoEvent ==
    [run |-> 0, kind |-> "none", response |-> None, ms |-> 0, attempt |-> 0,
     invokes |-> 0, chain |-> 0, cancelled |-> FALSE, deadlineFired |-> FALSE]
EventOf(r, run, kind, response, ms) ==
    [run |-> r, kind |-> kind, response |-> response, ms |-> ms,
     attempt |-> run.attempt, invokes |-> run.calls,
     chain |-> run.chain, cancelled |-> r \in aborted,
     deadlineFired |-> run.timer = "fired"]

IALabInit ==
    /\ step = "hero"
    /\ restImage = ""
    /\ smileImage = ""
    /\ idealImage = ""
    /\ analysis = ""
    /\ metrics = None
    /\ landmarks = None
    /\ contactData = None
    /\ simulationData = None
    /\ isProcessing = FALSE
    /\ retryCount = 0
    /\ faceLandmarkerRef = None
    /\ abortControllerRef = 0
    /\ aborted = {}
    /\ runs = [r \in RunIds |-> IdleRun]
    /\ started = 0
    /\ toasts = {}
    /\ notice = "none"
    /\ event = NoEvent
    /\ landmarkerInit = "pending"

\* new CacheManager(config) (lines 31-38) with the given strategy.
CacheNew(strategy) ==
    /\ cache = <<>>
    /\ totalSize = 0
    /\ config = [maxSize |-> CacheMaxSize, maxAge |-> CacheMaxAge, strategy |-> strategy]
    /\ now = 0
    /\ hung = FALSE
    /\ cacheResult = [op |-> "new", key |-> "", value |-> None]

\* new RateLimiter() (lines 408-409).
LimiterNew ==
    /\ requests = [id \in Identifiers |-> None]
    /\ limiterWindow = [id \in Identifiers |-> None]
    /\ limiterResult = [op |-> "new", identifier |-> "", returned |-> FALSE]

\* new CSRFProtection() (lines 514-515).
CsrfNew ==
    /\ tokens = [sessionId \in SessionIds |-> None]
    /\ generated = 0
    /\ lastGenerated = [sessionId \in SessionIds |-> None]
    /\ csrfResult = [op |-> "new", sessionId |-> "", token |-> 0, returned |-> FALSE]

\* new SessionManager() (lines 647-651).
SessionNew ==
    /\ sessionTimer = None
    /\ warningTimer = None
    /\ listeners = 0
    /\ monitoring = FALSE
    /\ sessionNotice = "none"

\* new WorkerManager() (lines 400-402); no executeTask call was made.
IdleTask ==
    [status |-> "idle", worker |-> "", reason |-> "none", settledWith |-> 0,
     timeout |-> "none"]
WorkersNew ==
    /\ workers = {}
    /\ handlerOwner = [name \in WorkerNames |-> 0]
    /\ inbox = [name \in WorkerNames |-> <<>>]
    /\ tasks = [c \in CallIds |-> IdleTask]

\* new RequestOptimizer() (line 644); batchRequests was not called.
BatchNew ==
    /\ batchCall = "idle"
    /\ requestCount = 0
    /\ batchSize = 1
    /\ batchI = 0
    /\ requestStatus = [k \in RequestIds |-> "notStarted"]
    /\ results = <<>>

\* The component after mount, with the module's imageCache, workerManager and
\* requestOptimizer (performance.ts lines 630-644), rateLimiter, csrf and
\* sessionManager (part_001 lines 751-755).
Init ==
    /\ IALabInit /\ CacheNew("LRU") /\ LimiterNew /\ CsrfNew /\ SessionNew
    /\ WorkersNew /\ BatchNew

\* ------------------------------------------------- landmarker initialization
\* (variant: a failed initialization is started again without the user)
InitSettles_AutoRetries(ok) ==
    /\ landmarkerInit = "pending"
    /\ IF ok
       THEN /\ landmarkerInit' = "ready"
            /\ faceLandmarkerRef' = Some("handle")
            /\ notice' = "none"
       ELSE /\ landmarkerInit' = "pending"
            /\ notice' = "landmarker_unavailable"
            /\ UNCHANGED faceLandmarkerRef
    /\ event' = NoEvent
    /\ UNCHANGED utilVars
    /\ UNCHANGED <<reactVars, abortControllerRef, aborted, runs, started, toasts>>

\* initializeFaceLandmarker (lines 63-109) settling: the handle is stored, or
\* the failure toast with the manual retry is shown.
InitSettles(ok) ==
    /\ landmarkerInit = "pending"
    /\ IF ok
       THEN /\ landmarkerInit' = "ready"
            /\ faceLandmarkerRef' = Some("handle")
            /\ notice' = "none"
       ELSE /\ landmarkerInit' = "failed"
            /\ notice' = "landmarker_unavailable"
            /\ UNCHANGED faceLandmarkerRef
    /\ event' = NoEvent
    /\ UNCHANGED utilVars
    /\ UNCHANGED <<reactVars, abortControllerRef, aborted, runs, started, toasts>>

\* The "Reintentar" action of the initialization toast (line 104).
InitRetry ==
    /\ landmarkerInit = "failed"
    /\ landmarkerInit' = "pending"
    /\ notice' = "none"
    /\ event' = NoEvent
    /\ UNCHANGED utilVars
    /\ UNCHANGED <<reactVars, faceLandmarkerRef, abortControllerRef, aborted, runs,
                   started, toasts>>

\* --------------------------------------------------------- handleCapture
\* The synchronous head of handleCapture (lines 203-234) called with the
\* closure values cIsProcessing and cRetry: the guard, the state updates, the
\* new abort controller and deadline timer, and the start of both optimize
\* calls.  rs is the run table as the caller leaves it; the caller states
\* retryCount' and toasts'.
HandleCapture(cIsProcessing, cRetry, rest, smile, chain, rs) ==
    IF cIsProcessing
    THEN /\ notice' = "busy"
         /\ runs' = rs
         /\ UNCHANGED <<step, restImage, smileImage, isProcessing,
                        abortControllerRef, started, aborted>>
    ELSE /\ started < MaxRuns
         /\ started' = started + 1
         /\ isProcessing' = TRUE
         /\ restImage' = rest
         /\ smileImage' = smile
         /\ step' = "loading"
         /\ abortControllerRef' = started + 1
         /\ runs' = [rs EXCEPT ![started + 1] =
                       [IdleRun EXCEPT !.pc = "optimize", !.rest = rest, !.smile = smile,
                                       !.cIsProcessing = cIsProcessing, !.cRetry = cRetry,
                                       !.chain = chain, !.timer = "armed"]]
         /\ aborted' = aborted \cap Referenced(abortControllerRef', runs')
         /\ notice' = "none"

\* The capture widget (rendered in step "capture") calls the handleCapture of
\* the current render (lines 484-490).
Submit(rest, smile) ==
    /\ step = "capture"
    /\ HandleCapture(isProcessing, retryCount, rest, smile, 1, runs)
    /\ event' = NoEvent
    /\ UNCHANGED utilVars
    /\ UNCHANGED <<idealImage, analysis, metrics, landmarks, contactData,
                   simulationData, retryCount, faceLandmarkerRef, toasts,
                   landmarkerInit>>

\* (variant: the retry resubmits the photos currently on display)
RetryClick_UsesCurrentImages(t) ==
    /\ t \in toasts
    /\ toasts' = toasts \ {t}
    /\ retryCount' = retryCount + 1
    /\ HandleCapture(runs[t].cIsProcessing, runs[t].cRetry, restImage,
                     smileImage, runs[t].chain + 1,
                     [runs EXCEPT ![t] = Returned(runs[t], FALSE)])
    /\ event' = NoEvent
    /\ UNCHANGED utilVars
    /\ UNCHANGED <<idealImage, analysis, metrics, landmarks, contactData,
                   simulationData, faceLandmarkerRef, landmarkerInit>>

\* The "Reintentar" action of a failure toast (lines 421-424): it bumps the
\* counter and calls the handleCapture closure of the failed run t with that
\* run's photos.  The toast is dismissed by the click.
RetryClick(t) ==
    /\ t \in toasts
    /\ toasts' = toasts \ {t}
    /\ retryCount' = retryCount + 1
    /\ HandleCapture(runs[t].cIsProcessing, runs[t].cRetry, runs[t].rest,
                     runs[t].smile, runs[t].chain + 1,
                     [runs EXCEPT ![t] = Returned(runs[t], FALSE)])
    /\ event' = NoEvent
    /\ UNCHANGED utilVars
    /\ UNCHANGED <<idealImage, analysis, metrics, landmarks, contactData,
                   simulationData, faceLandmarkerRef, landmarkerInit>>

\* A failure toast goes away (duration 7000, line 418) without being used.
ToastExpires(t) ==
    /\ t \in toasts
    /\ toasts' = toasts \ {t}
    /\ runs' = [runs EXCEPT ![t] = Returned(runs[t], FALSE)]
    /\ notice' = "none"
    /\ event' = NoEvent
    /\ UNCHANGED utilVars
    /\ UNCHANGED <<reactVars, faceLandmarkerRef, abortControllerRef, aborted,
                   started, landmarkerInit>>

\* -------------------------------------------------------- ends of a run
\* A step of run r that leaves the run in flight, showing toast n.
Continue(r, run, n, ev) ==
    /\ runs' = [runs EXCEPT ![r] = run]
    /\ aborted' = aborted \cap Referenced(abortControllerRef, runs')
    /\ notice' = n
    /\ event' = ev
    /\ UNCHANGED utilVars
    /\ UNCHANGED <<reactVars, faceLandmarkerRef, abortControllerRef, started,
                   toasts, landmarkerInit>>

\* (variant: the success path skips the finally block)
Complete_SkipsFinally(r, run, resp, simulationResult) ==
    LET p == ProcessSimulationResults(simulationResult, run.optimizedSmile, smileImage)
    IN  /\ smileImage' = p.smileImage
        /\ idealImage' = p.idealImage
        /\ simulationData' = p.simulationData
        /\ analysis' = AnalysisTextOf(run.calculatedMetrics[1])
        /\ metrics' = run.calculatedMetrics
        /\ landmarks' = run.smileLandmarks
        /\ step' = "contact"
        /\ notice' = p.notice
        /\ runs' = [runs EXCEPT ![r] = Returned(run, FALSE)]
        /\ aborted' = aborted \cap Referenced(abortControllerRef, runs')
        /\ event' = EventOf(r, run, "completed", Some(resp), 0)
        /\ UNCHANGED utilVars
        /\ UNCHANGED <<restImage, contactData, retryCount, faceLandmarkerRef,
                       started, toasts, landmarkerInit, isProcessing,
                       abortControllerRef>>

\* Normal completion (lines 377-405, then finally 436-439) with the loop's
\* simulationResult (None is null) after the remote call settled with resp.
Complete(r, run, resp, simulationResult) ==
    LET p == ProcessSimulationResults(simulationResult, run.optimizedSmile, smileImage)
    IN  /\ smileImage' = p.smileImage
        /\ idealImage' = p.idealImage
        /\ simulationData' = p.simulationData
        /\ analysis' = AnalysisTextOf(run.calculatedMetrics[1])
        /\ metrics' = run.calculatedMetrics
        /\ landmarks' = run.smileLandmarks
        /\ step' = "contact"
        /\ isProcessing' = FALSE
        /\ abortControllerRef' = 0
        /\ notice' = p.notice
        /\ runs' = [runs EXCEPT ![r] = Returned(run, FALSE)]
        /\ aborted' = aborted \cap Referenced(abortControllerRef', runs')
        /\ event' = EventOf(r, run, "completed", Some(resp), 0)
        /\ UNCHANGED utilVars
        /\ UNCHANGED <<restImage, contactData, retryCount, faceLandmarkerRef,
                       started, toasts, landmarkerInit>>

\* (variant: the catch also wipes the published results)
Catch_ClearsResults(r, run) ==
    /\ step' = "capture"
    /\ isProcessing' = FALSE
    /\ abortControllerRef' = 0
    /\ toasts' = IF OffersRetry(run.cRetry) THEN toasts \cup {r} ELSE toasts
    /\ notice' = IF OffersRetry(run.cRetry) THEN "error_retry" ELSE "error_terminal"
    /\ runs' = [runs EXCEPT ![r] = Returned(run, OffersRetry(run.cRetry))]
    /\ aborted' = aborted \cap Referenced(abortControllerRef', runs')
    /\ event' = EventOf(r, run, "failed", None, 0)
    /\ UNCHANGED utilVars
    /\ idealImage' = ""
    /\ simulationData' = None
    /\ UNCHANGED <<restImage, smileImage, analysis, metrics, landmarks,
                   contactData, retryCount, faceLandmarkerRef,
                   started, landmarkerInit>>

\* The outer catch (lines 407-435, then finally 436-439).
Catch(r, run) ==
    /\ step' = "capture"
    /\ isProcessing' = FALSE
    /\ abortControllerRef' = 0
    /\ toasts' = IF OffersRetry(run.cRetry) THEN toasts \cup {r} ELSE toasts
    /\ notice' = IF OffersRetry(run.cRetry) THEN "error_retry" ELSE "error_terminal"
    /\ runs' = [runs EXCEPT ![r] = Returned(run, OffersRetry(run.cRetry))]
    /\ aborted' = aborted \cap Referenced(abortControllerRef', runs')
    /\ event' = EventOf(r, run, "failed", None, 0)
    /\ UNCHANGED utilVars
    /\ UNCHANGED <<restImage, smileImage, idealImage, analysis, metrics, landmarks,
                   contactData, simulationData, retryCount, faceLandmarkerRef,
                   started, landmarkerInit>>

\* ------------------------------------------------------ stages of a run
\* The two members of a fan-out pair settle in separate tasks, but nothing
\* outside the run reads its locals in between, so each pair is one step here:
\* the step in which its second member settles (or its first one rejects).

\* (variant: the pair is not joined, the run goes on when the resting image
\* alone has settled)
OptimizeSettles_NotJoined(r, restLoads, restCtx, smileLoads, smileCtx) ==
    /\ runs[r].pc = "optimize"
    /\ restLoads => runs[r].rest # ""
    /\ smileLoads => runs[r].smile # ""
    /\ LET run == runs[r]
       IN  Continue(r, [run EXCEPT !.optimizedRest = optimizeImage(run.rest, restLoads, restCtx),
                                   !.pc = "import"], "none", NoEvent)

\* Both optimizeImage calls have settled (lines 231-234) and the dynamic
\* import of the metrics library starts (lines 237-242).
OptimizeSettles(r, restLoads, restCtx, smileLoads, smileCtx) ==
    /\ runs[r].pc = "optimize"
    \* an image element with an empty src fires error, never load
    /\ restLoads => runs[r].rest # ""
    /\ smileLoads => runs[r].smile # ""
    /\ LET run == runs[r]
       IN  Continue(r, [run EXCEPT !.optimizedRest = optimizeImage(run.rest, restLoads, restCtx),
                                   !.optimizedSmile = optimizeImage(run.smile, smileLoads, smileCtx),
                                   !.pc = "import"], "none", NoEvent)

\* The dynamic import settles; on success both image elements start loading
\* (lines 245-258), after which optimizedRest is not read again.
ImportSettles(r, ok) ==
    /\ runs[r].pc = "import"
    /\ IF ok
       THEN Continue(r, [runs[r] EXCEPT !.pc = "decode", !.optimizedRest = ""],
                     "none", NoEvent)
       ELSE Catch(r, runs[r])

\* The remote call of loop iteration `attempt` is issued (lines 352-360) with
\* the signal of whatever controller the ref holds at that moment.
StartInvoke(r, run, attempt) ==
    [run EXCEPT !.pc = "invoke",
                !.attempt = attempt,
                !.signal = abortControllerRef,
                !.calls = run.calls + 1]

DetectOutcomes == {"ok", "detectThrows", "noSmileFace", "noRestFace"}

\* Lines 270-335: the landmarks of the smiling image and the metrics, for a
\* landmarker ref and a detection outcome.
DetectLandmarks(ref, det, rest, smile, imgW, imgH) ==
    IF ref = None
    THEN [smileLandmarks |-> None, calculatedMetrics |-> FallbackMetricsNoLandmarker]
    ELSE IF det = "ok"
         THEN [smileLandmarks |-> Some(LandmarksOf(smile)),
               calculatedMetrics |->
                   computeMetrics(LandmarksOf(rest), LandmarksOf(smile), imgW, imgH)]
         ELSE [smileLandmarks |-> None, calculatedMetrics |-> FallbackMetricsCatch]

\* (variant: an image that fails quality validation aborts the run)
DecodeSettles_InvalidImageAborts(r, restOk, smileOk, smileSize, restSize, det) ==
    /\ runs[r].pc = "decode"
    /\ restOk => runs[r].rest # ""
    /\ smileOk => runs[r].smile # ""
    /\ LET run == runs[r]
           smileQ == validateImageQuality(smileSize[1], smileSize[2])
           restQ == validateImageQuality(restSize[1], restSize[2])
           n == IF restQ.notice # "none" THEN restQ.notice ELSE smileQ.notice
           d == DetectLandmarks(faceLandmarkerRef, det, run.rest, run.smile,
                                smileSize[1], smileSize[2])
           r1 == [run EXCEPT !.smileLandmarks = d.smileLandmarks,
                             !.calculatedMetrics = Some(d.calculatedMetrics)]
           r2 == StartInvoke(r, r1, 0)
       IN  IF restOk /\ smileOk /\ smileQ.valid /\ restQ.valid
           THEN Continue(r, r2, n, EventOf(r, r2, "invoke", None, 0))
           ELSE Catch(r, run)

\* (variant: no inner try/catch, a detection failure aborts the run)
DecodeSettles_DetectionFailureAborts(r, restOk, smileOk, smileSize, restSize, det) ==
    /\ runs[r].pc = "decode"
    /\ restOk => runs[r].rest # ""
    /\ smileOk => runs[r].smile # ""
    /\ LET run == runs[r]
           smileQ == validateImageQuality(smileSize[1], smileSize[2])
           restQ == validateImageQuality(restSize[1], restSize[2])
           n == IF restQ.notice # "none" THEN restQ.notice ELSE smileQ.notice
           d == DetectLandmarks(faceLandmarkerRef, det, run.rest, run.smile,
                                smileSize[1], smileSize[2])
           r1 == [run EXCEPT !.smileLandmarks = d.smileLandmarks,
                             !.calculatedMetrics = Some(d.calculatedMetrics)]
           r2 == StartInvoke(r, r1, 0)
       IN  IF restOk /\ smileOk /\ (faceLandmarkerRef = None \/ det = "ok")
           THEN Continue(r, r2, n, EventOf(r, r2, "invoke", None, 0))
           ELSE Catch(r, run)

\* The image elements settle (lines 245-258): a rejection aborts the run.
\* Otherwise, in the same task: quality validation, landmark detection,
\* metrics and the analysis chain (lines 260-344), and the first remote call
\* (line 352).
DecodeSettles(r, restOk, smileOk, smileSize, restSize, det) ==
    /\ runs[r].pc = "decode"
    /\ restOk => runs[r].rest # ""
    /\ smileOk => runs[r].smile # ""
    /\ LET run == runs[r]
           smileQ == validateImageQuality(smileSize[1], smileSize[2])
           restQ == validateImageQuality(restSize[1], restSize[2])
           n == IF restQ.notice # "none" THEN restQ.notice ELSE smileQ.notice
           d == DetectLandmarks(faceLandmarkerRef, det, run.rest, run.smile,
                                smileSize[1], smileSize[2])
           r1 == [run EXCEPT !.smileLandmarks = d.smileLandmarks,
                             !.calculatedMetrics = Some(d.calculatedMetrics)]
           r2 == StartInvoke(r, r1, 0)
       IN  IF restOk /\ smileOk
           THEN Continue(r, r2, n, EventOf(r, r2, "invoke", None, 0))
           ELSE Catch(r, run)

\* (variant: the last error is rethrown when every attempt has failed)
InvokeSettles_ThrowsWhenExhausted(r, resp) ==
    /\ runs[r].pc = "invoke"
    /\ (runs[r].signal \in aborted) => resp = ErrorResponse
    /\ LET run == [runs[r] EXCEPT !.signal = 0]
           todo == LoopStep(resp, run.attempt)
           waiting == [run EXCEPT !.pc = "backoff"]
           calling == StartInvoke(r, run, run.attempt + 1)
       IN  CASE todo = "wait" ->
                  Continue(r, waiting, "none",
                           EventOf(r, waiting, "wait", Some(resp), BackoffDelay(run.attempt)))
             [] todo = "next" ->
                  Continue(r, calling, "none", EventOf(r, calling, "invoke", Some(resp), 0))
             [] todo = "break" -> Complete(r, run, resp, resp.data)
             [] OTHER -> IF resp.error THEN Catch(r, run) ELSE Complete(r, run, resp, None)

\* The remote call settles (lines 352-375).  A call whose signal is aborted
\* can only fail.
InvokeSettles(r, resp) ==
    /\ runs[r].pc = "invoke"
    /\ (runs[r].signal \in aborted) => resp = ErrorResponse
    /\ LET run == [runs[r] EXCEPT !.signal = 0]
           todo == LoopStep(resp, run.attempt)
           waiting == [run EXCEPT !.pc = "backoff"]
           calling == StartInvoke(r, run, run.attempt + 1)
       IN  CASE todo = "wait" ->
                  Continue(r, waiting, "none",
                           EventOf(r, waiting, "wait", Some(resp), BackoffDelay(run.attempt)))
             [] todo = "next" ->
                  Continue(r, calling, "none", EventOf(r, calling, "invoke", Some(resp), 0))
             [] todo = "break" -> Complete(r, run, resp, resp.data)
             [] OTHER -> Complete(r, run, resp, None)

\* The backoff timer of line 372 elapses; the next iteration issues its call.
BackoffElapsed(r) ==
    /\ runs[r].pc = "backoff"
    /\ LET calling == StartInvoke(r, runs[r], runs[r].attempt + 1)
       IN  Continue(r, calling, "none", EventOf(r, calling, "invoke", None, 0))

\* (variant: the deadline also throws a run out of its local stages)
TimerFires_AbortsLocalStage(r) ==
    /\ runs[r].timer = "armed"
    /\ IF runs[r].pc \in {"optimize", "import", "decode"}
       THEN Catch(r, runs[r])
       ELSE /\ aborted' = aborted \cup ({abortControllerRef} \ {0})
            /\ runs' = [runs EXCEPT ![r].timer = "fired"]
            /\ notice' = "none"
            /\ event' = NoEvent
            /\ UNCHANGED utilVars
            /\ UNCHANGED <<reactVars, faceLandmarkerRef, abortControllerRef, started,
                           toasts, landmarkerInit>>

\* The 30 s deadline of run r (lines 225-227) fires: it aborts the controller
\* the ref holds now, if any.
TimerFires(r) ==
    /\ runs[r].timer = "armed"
    /\ aborted' = aborted \cup ({abortControllerRef} \ {0})
    /\ runs' = [runs EXCEPT ![r].timer = "fired"]
    /\ notice' = "none"
    /\ event' = NoEvent
    /\ UNCHANGED utilVars
    /\ UNCHANGED <<reactVars, faceLandmarkerRef, abortControllerRef, started, toasts,
                   landmarkerInit>>

\* ---------------------------------------------------------- other steps
\* HeroSection onStart (line 482).
Start ==
    /\ step = "hero"
    /\ step' = "capture"
    /\ notice' = "none"
    /\ event' = NoEvent
    /\ UNCHANGED utilVars
    /\ UNCHANGED <<restImage, smileImage, idealImage, analysis, metrics, landmarks,
                   contactData, simulationData, isProcessing, retryCount,
                   faceLandmarkerRef, abortControllerRef, aborted, runs, started,
                   toasts, landmarkerInit>>

\* (variant: the contact record is not stored)
handleContactSubmit_DropsContact(data) ==
    /\ step = "contact"
    /\ step' = "results"
    /\ notice' = "completed"
    /\ event' = NoEvent
    /\ UNCHANGED utilVars
    /\ UNCHANGED <<restImage, smileImage, idealImage, analysis, metrics, landmarks,
                   contactData, simulationData, isProcessing, retryCount,
                   faceLandmarkerRef, abortControllerRef, aborted, runs, started,
                   toasts, landmarkerInit>>

\* handleContactSubmit (lines 445-460), offered in step "contact".
handleContactSubmit(data) ==
    /\ step = "contact"
    /\ contactData' = Some(data)
    /\ step' = "results"
    /\ notice' = "completed"
    /\ event' = NoEvent
    /\ UNCHANGED utilVars
    /\ UNCHANGED <<restImage, smileImage, idealImage, analysis, metrics, landmarks,
                   simulationData, isProcessing, retryCount,
                   faceLandmarkerRef, abortControllerRef, aborted, runs, started,
                   toasts, landmarkerInit>>

\* (variant: the retry counter survives the reset)
resetApplication_KeepsRetryCount ==
    /\ step = "results"
    /\ step' = "hero"
    /\ restImage' = ""
    /\ smileImage' = ""
    /\ idealImage' = ""
    /\ analysis' = ""
    /\ metrics' = None
    /\ landmarks' = None
    /\ contactData' = None
    /\ simulationData' = None
    /\ notice' = "none"
    /\ event' = NoEvent
    /\ UNCHANGED utilVars
    /\ UNCHANGED <<isProcessing, retryCount, faceLandmarkerRef, abortControllerRef,
                   aborted, runs, started, toasts, landmarkerInit>>

\* resetApplication (lines 465-476), offered in step "results".
resetApplication ==
    /\ step = "results"
    /\ step' = "hero"
    /\ restImage' = ""
    /\ smileImage' = ""
    /\ idealImage' = ""
    /\ analysis' = ""
    /\ metrics' = None
    /\ landmarks' = None
    /\ contactData' = None
    /\ simulationData' = None
    /\ retryCount' = 0
    /\ notice' = "none"
    /\ event' = NoEvent
    /\ UNCHANGED utilVars
    /\ UNCHANGED <<isProcessing, faceLandmarkerRef, abortControllerRef, aborted, runs,
                   started, toasts, landmarkerInit>>

Next ==
    \/ \E ok \in BOOLEAN : InitSettles(ok)
    \/ InitRetry
    \/ Start
    \/ (isProcessing \/ started < MaxStarts)
       /\ \E pair \in PhotoPairs : Submit(pair[1], pair[2])
    \/ started < MaxStarts /\ \E t \in RunIds : RetryClick(t)
    \/ \E t \in RunIds : ToastExpires(t)
    \/ \E r \in RunIds, ro \in LoadOutcomes, so \in LoadOutcomes :
          OptimizeSettles(r, ro[1], ro[2], so[1], so[2])
    \/ \E r \in RunIds, ok \in BOOLEAN : ImportSettles(r, ok)
    \/ \E r \in RunIds, restOk \in BOOLEAN, smileOk \in BOOLEAN :
          \* sizes and det are read only when both images decode, det only
          \* when a landmarker is present
          \E sizes \in IF restOk /\ smileOk THEN ImageSizePairs
                        ELSE {<<<<1024, 768>>, <<1024, 768>>>>},
             det \in IF restOk /\ smileOk /\ faceLandmarkerRef # None THEN DetectOutcomes
                      ELSE {"ok"} :
             DecodeSettles(r, restOk, smileOk, sizes[1], sizes[2], det)
    \/ \E r \in RunIds, resp \in Responses : InvokeSettles(r, resp)
    \/ \E r \in RunIds : BackoffElapsed(r)
    \/ \E r \in RunIds : TimerFires(r)
    \/ \E data \in Contacts : handleContactSubmit(data)
    \/ resetApplication

Spec == Init /\ [][Next]_vars

\* One step of run r: a promise it awaits settles or its backoff timer elapses.
RunStep(r) ==
    \/ \E ro \in LoadOutcomes, so \in LoadOutcomes :
          OptimizeSettles(r, ro[1], ro[2], so[1], so[2])
    \/ \E ok \in BOOLEAN : ImportSettles(r, ok)
    \/ \E restOk \in BOOLEAN, smileOk \in BOOLEAN, sizes \in ImageSizePairs,
          det \in DetectOutcomes :
          DecodeSettles(r, restOk, smileOk, sizes[1], sizes[2], det)
    \/ \E resp \in Responses : InvokeSettles(r, resp)
    \/ BackoffElapsed(r)

\* Every promise a run awaits settles and every timer it waits for elapses:
\* the image loads, the dynamic import and the remote call return or fail.
\* The fairness specification explores the runs of the first MaxFairStarts
\* calls that pass the entry guard.
FairNext ==
    \/ \E ok \in BOOLEAN : InitSettles(ok)
    \/ InitRetry
    \/ Start
    \/ started < MaxFairStarts /\ \E pair \in PhotoPairs : Submit(pair[1], pair[2])
    \/ started < MaxFairStarts /\ \E t \in RunIds : RetryClick(t)
    \/ \E t \in RunIds : ToastExpires(t)
    \/ \E r \in RunIds : RunStep(r)
    \/ \E r \in RunIds : TimerFires(r)
    \/ \E data \in Contacts : handleContactSubmit(data)
    \/ resetApplication
FairSpec == Init /\ [][FairNext]_vars /\ \A r \in RunIds : WF_vars(RunStep(r))

\* The retry-chain specification: the user submits one photo pair and from
\* then on starts runs only through the retry affordance.
RetryChainNext ==
    \/ \E ok \in BOOLEAN : InitSettles(ok)
    \/ InitRetry
    \/ Start
    \/ started = 0 /\ Submit("A", "B")
    \/ started < MaxChainStarts /\ \E t \in RunIds : RetryClick(t)
    \/ \E t \in RunIds : ToastExpires(t)
    \/ \E r \in RunIds : RunStep(r)
    \/ \E r \in RunIds : TimerFires(r)
    \/ \E data \in Contacts : handleContactSubmit(data)
    \/ resetApplication
RetryChainSpec == Init /\ [][RetryChainNext]_vars

\* ------------------------------------------------------------ CacheManager
\* The cache is the Map of lines 27: its entries in insertion order, each
\* with its key.
Strategies == {"LRU", "LFU", "FIFO"}
CacheKeys == {"", "a", "b"}
StringLength(data) == IF data = "x" THEN 1 ELSE 3

\* The data and size arguments of set; size 0 also stands for an omitted
\* argument (both are falsy at line 67).  Sizes are byte counts: none is
\* negative.
SetArgs == {<<"x", 0>>, <<"xyz", 0>>, <<"xyz", 3>>, <<"x", 5>>}

\* estimateSize (lines 193-204) of a string.
estimateSize(data) == StringLength(data) * 2

Has(c, key) == \E i \in 1..Len(c) : c[i].key = key
EntryOf(c, key) == c[CHOOSE i \in 1..Len(c) : c[i].key = key]
Without(c, key) == SelectSeq(c, LAMBDA e : e.key # key)

\* (variant: delete leaves the total as it is)
Deleted_KeepsTotal(c, total, key) ==
    IF Has(c, key)
    THEN [cache |-> Without(c, key), totalSize |-> total]
    ELSE [cache |-> c, totalSize |-> total]

\* delete (lines 100-109) on the fields c and total.
Deleted(c, total, key) ==
    IF Has(c, key)
    THEN [cache |-> Without(c, key), totalSize |-> total - EntryOf(c, key).size]
    ELSE [cache |-> c, totalSize |-> total]

\* The loops of getLRUKey, getLFUKey and getFIFOKey (lines 145-191): the key
\* of the first entry, in iteration order, whose field is strictly below all
\* earlier ones and not above any later one; null for an empty map.
getLRUKey(c) ==
    IF c = <<>> THEN None
    ELSE Some(c[CHOOSE i \in 1..Len(c) :
                  \A j \in 1..Len(c) :
                      \/ c[i].lastAccessed < c[j].lastAccessed
                      \/ (c[i].lastAccessed = c[j].lastAccessed /\ i <= j)].key)
getLFUKey(c) ==
    IF c = <<>> THEN None
    ELSE Some(c[CHOOSE i \in 1..Len(c) :
                  \A j \in 1..Len(c) :
                      \/ c[i].frequency < c[j].frequency
                      \/ (c[i].frequency = c[j].frequency /\ i <= j)].key)
getFIFOKey(c) ==
    IF c = <<>> THEN None
    ELSE Some(c[CHOOSE i \in 1..Len(c) :
                  \A j \in 1..Len(c) :
                      \/ c[i].timestamp < c[j].timestamp
                      \/ (c[i].timestamp = c[j].timestamp /\ i <= j)].key)

\* evict (lines 122-140): the key chosen by the strategy is deleted if it is
\* truthy (not null and not the empty string).
evict(c, total, strategy) ==
    LET keyToEvict == IF strategy = "LRU" THEN getLRUKey(c)
                      ELSE IF strategy = "LFU" THEN getLFUKey(c)
                      ELSE getFIFOKey(c)
    IN  IF keyToEvict # None /\ keyToEvict[1] # ""
        THEN Deleted(c, total, keyToEvict[1])
        ELSE [cache |-> c, totalSize |-> total]

\* The make-space loop of set (lines 75-78).  An iteration that changes
\* nothing is followed by the same iteration for ever: hung.
RECURSIVE MakeSpace(_, _, _, _)
MakeSpace(c, total, dataSize, cfg) ==
    IF total + dataSize > cfg.maxSize
    THEN LET e == evict(c, total, cfg.strategy)
         IN  IF e.cache = c
             THEN [cache |-> c, totalSize |-> total, hung |-> TRUE]
             ELSE MakeSpace(e.cache, e.totalSize, dataSize, cfg)
    ELSE [cache |-> c, totalSize |-> total, hung |-> FALSE]

\* (variant: the entry is stored without making space)
CacheManager_set_NoEviction(key, data, size) ==
    /\ ~hung
    /\ LET dataSize == IF size # 0 THEN size ELSE estimateSize(data)
           d == Deleted(cache, totalSize, key)
           entry == [key |-> key, data |-> data, timestamp |-> now,
                     size |-> dataSize, frequency |-> 0, lastAccessed |-> now]
       IN  IF dataSize > config.maxSize
           THEN /\ cacheResult' = [op |-> "set_refused", key |-> key, value |-> None]
                /\ UNCHANGED <<cache, totalSize, hung>>
           ELSE /\ cache' = Append(d.cache, entry)
                /\ totalSize' = d.totalSize + dataSize
                /\ cacheResult' = [op |-> "set", key |-> key, value |-> None]
                /\ UNCHANGED hung
    /\ UNCHANGED <<config, now, outsideCache>>

\* set (lines 66-95).
CacheManager_set(key, data, size) ==
    /\ ~hung
    /\ LET dataSize == IF size # 0 THEN size ELSE estimateSize(data)
           m == MakeSpace(cache, totalSize, dataSize, config)
           d == Deleted(m.cache, m.totalSize, key)
           entry == [key |-> key, data |-> data, timestamp |-> now,
                     size |-> dataSize, frequency |-> 0, lastAccessed |-> now]
       IN  IF dataSize > config.maxSize
           THEN /\ cacheResult' = [op |-> "set_refused", key |-> key, value |-> None]
                /\ UNCHANGED <<cache, totalSize, hung>>
           ELSE IF m.hung
           THEN /\ cache' = m.cache
                /\ totalSize' = m.totalSize
                /\ hung' = TRUE
                /\ cacheResult' = [op |-> "set_hung", key |-> key, value |-> None]
           ELSE /\ cache' = Append(d.cache, entry)
                /\ totalSize' = d.totalSize + dataSize
                /\ cacheResult' = [op |-> "set", key |-> key, value |-> None]
                /\ UNCHANGED hung
    /\ UNCHANGED <<config, now, outsideCache>>

\* (variant: get does not look at the entry's age)
CacheManager_get_ServesExpired(key) ==
    /\ ~hung
    /\ IF ~Has(cache, key)
       THEN /\ cacheResult' = [op |-> "get", key |-> key, value |-> None]
            /\ UNCHANGED <<cache, totalSize>>
       ELSE LET entry == EntryOf(cache, key)
            IN  /\ entry.frequency < MaxFrequency
                /\ cache' = [i \in 1..Len(cache) |->
                               IF cache[i].key = key
                               THEN [cache[i] EXCEPT !.lastAccessed = now,
                                                     !.frequency = @ + 1]
                               ELSE cache[i]]
                /\ cacheResult' = [op |-> "get", key |-> key,
                                   value |-> Some(entry.data)]
                /\ UNCHANGED totalSize
    /\ UNCHANGED <<config, now, hung, outsideCache>>

\* get (lines 43-61); value is what it returns (None is null).
CacheManager_get(key) ==
    /\ ~hung
    /\ IF ~Has(cache, key)
       THEN /\ cacheResult' = [op |-> "get", key |-> key, value |-> None]
            /\ UNCHANGED <<cache, totalSize>>
       ELSE LET entry == EntryOf(cache, key)
                d == Deleted(cache, totalSize, key)
            IN  IF now - entry.timestamp > config.maxAge
                THEN /\ cache' = d.cache
                     /\ totalSize' = d.totalSize
                     /\ cacheResult' = [op |-> "get_expired", key |-> key,
                                        value |-> None]
                ELSE /\ entry.frequency < MaxFrequency
                     /\ cache' = [i \in 1..Len(cache) |->
                                    IF cache[i].key = key
                                    THEN [cache[i] EXCEPT !.lastAccessed = now,
                                                          !.frequency = @ + 1]
                                    ELSE cache[i]]
                     /\ cacheResult' = [op |-> "get", key |-> key,
                                        value |-> Some(entry.data)]
                     /\ UNCHANGED totalSize
    /\ UNCHANGED <<config, now, hung, outsideCache>>

\* delete (lines 100-109) called from outside.
CacheManager_delete(key) ==
    /\ ~hung
    /\ LET d == Deleted(cache, totalSize, key)
       IN  /\ cache' = d.cache
           /\ totalSize' = d.totalSize
    /\ cacheResult' = [op |-> "delete", key |-> key, value |-> None]
    /\ UNCHANGED <<config, now, hung, outsideCache>>

\* clear (lines 114-117).
CacheManager_clear ==
    /\ ~hung
    /\ cache' = <<>>
    /\ totalSize' = 0
    /\ cacheResult' = [op |-> "clear", key |-> "", value |-> None]
    /\ UNCHANGED <<config, now, hung, outsideCache>>

\* A millisecond passes between two calls.
Tick ==
    /\ ~hung
    /\ now < MaxNow
    /\ now' = now + 1
    /\ UNCHANGED <<cache, totalSize, config, hung, cacheResult, outsideCache>>

CacheInit ==
    IALabInit /\ LimiterNew /\ CsrfNew /\ SessionNew /\ WorkersNew /\ BatchNew
    /\ \E strategy \in Strategies : CacheNew(strategy)
CacheNext ==
    \/ \E key \in CacheKeys, a \in SetArgs : CacheManager_set(key, a[1], a[2])
    \/ \E key \in CacheKeys : CacheManager_get(key)
    \/ \E key \in CacheKeys : CacheManager_delete(key)
    \/ CacheManager_clear
    \/ Tick
CacheSpec == CacheInit /\ [][CacheNext]_vars

\* ------------------------------------------------------------- RateLimiter
\* The window of an identifier as the callers see it: opened by an admitted
\* request when none is open, open until its end has passed.
WindowOpen(id) == limiterWindow[id] # None /\ now <= limiterWindow[id][1].end
Admit(id, windowMs) ==
    IF WindowOpen(id)
    THEN [limiterWindow EXCEPT ![id] = Some([@[1] EXCEPT !.admitted = @ + 1])]
    ELSE [limiterWindow EXCEPT ![id] = Some([end |-> now + windowMs, admitted |-> 1])]

\* (variant: the count is compared after the increment)
checkLimit_OneTooMany(cfg) ==
    LET key == cfg.identifier
        limit == requests[key]
    IN  /\ IF limit = None \/ now > limit[1].resetTime
           THEN /\ requests' = [requests EXCEPT ![key] =
                                   Some([count |-> 1, resetTime |-> now + cfg.windowMs])]
                /\ limiterWindow' = Admit(key, cfg.windowMs)
                /\ limiterResult' = [op |-> "checkLimit", identifier |-> key,
                                     returned |-> TRUE]
           ELSE IF limit[1].count > cfg.maxRequests
           THEN /\ limiterResult' = [op |-> "checkLimit", identifier |-> key,
                                     returned |-> FALSE]
                /\ UNCHANGED <<requests, limiterWindow>>
           ELSE /\ requests' = [requests EXCEPT ![key] =
                                   Some([limit[1] EXCEPT !.count = @ + 1])]
                /\ limiterWindow' = Admit(key, cfg.windowMs)
                /\ limiterResult' = [op |-> "checkLimit", identifier |-> key,
                                     returned |-> TRUE]
        /\ UNCHANGED <<now, outsideLimiter>>

\* checkLimit (lines 414-442).
checkLimit(cfg) ==
    LET key == cfg.identifier
        limit == requests[key]
    IN  /\ IF limit = None \/ now > limit[1].resetTime
           THEN /\ requests' = [requests EXCEPT ![key] =
                                   Some([count |-> 1, resetTime |-> now + cfg.windowMs])]
                /\ limiterWindow' = Admit(key, cfg.windowMs)
                /\ limiterResult' = [op |-> "checkLimit", identifier |-> key,
                                     returned |-> TRUE]
           ELSE IF limit[1].count >= cfg.maxRequests
           THEN /\ limiterResult' = [op |-> "checkLimit", identifier |-> key,
                                     returned |-> FALSE]
                /\ UNCHANGED <<requests, limiterWindow>>
           ELSE /\ requests' = [requests EXCEPT ![key] =
                                   Some([limit[1] EXCEPT !.count = @ + 1])]
                /\ limiterWindow' = Admit(key, cfg.windowMs)
                /\ limiterResult' = [op |-> "checkLimit", identifier |-> key,
                                     returned |-> TRUE]
        /\ UNCHANGED <<now, outsideLimiter>>

\* (variant: clearLimit forgets every identifier)
clearLimit_ClearsAll(identifier) ==
    /\ requests' = [id \in Identifiers |-> None]
    /\ limiterWindow' = [id \in Identifiers |-> None]
    /\ limiterResult' = [op |-> "clearLimit", identifier |-> identifier,
                         returned |-> FALSE]
    /\ UNCHANGED <<now, outsideLimiter>>

\* clearLimit (lines 447-449): the identifier's window is over.
clearLimit(identifier) ==
    /\ requests' = [requests EXCEPT ![identifier] = None]
    /\ limiterWindow' = [limiterWindow EXCEPT ![identifier] = None]
    /\ limiterResult' = [op |-> "clearLimit", identifier |-> identifier,
                         returned |-> FALSE]
    /\ UNCHANGED <<now, outsideLimiter>>

\* clearAll (lines 454-456).
clearAll ==
    /\ requests' = [id \in Identifiers |-> None]
    /\ limiterWindow' = [id \in Identifiers |-> None]
    /\ limiterResult' = [op |-> "clearAll", identifier |-> "", returned |-> FALSE]
    /\ UNCHANGED <<now, outsideLimiter>>

LimiterInit == Init
LimiterNext ==
    \/ \E id \in Identifiers : checkLimit(ConfigOf(id))
    \/ \E id \in Identifiers : clearLimit(id)
    \/ clearAll
    \/ Tick
LimiterSpec == LimiterInit /\ [][LimiterNext]_vars

\* ---------------------------------------------------------- CSRFProtection
\* generateToken (lines 520-526), also called by secureApiCall for a request
\* with requireAuth (lines 779-783).
generateToken(sessionId) ==
    /\ generated < MaxTokens
    /\ generated' = generated + 1
    /\ tokens' = [tokens EXCEPT ![sessionId] =
                     Some([token |-> generated + 1, expires |-> now + TokenLifetimeMs])]
    /\ lastGenerated' = [lastGenerated EXCEPT ![sessionId] =
                            Some([token |-> generated + 1, at |-> now])]
    /\ csrfResult' = [op |-> "generateToken", sessionId |-> sessionId,
                      token |-> generated + 1, returned |-> TRUE]
    /\ UNCHANGED <<now, outsideCsrf>>

\* (variant: the expiry time is not looked at)
validateToken_IgnoresExpiry(sessionId, token) ==
    /\ token <= generated
    /\ LET stored == tokens[sessionId]
       IN  csrfResult' = [op |-> "validateToken", sessionId |-> sessionId,
                          token |-> token,
                          returned |-> IF stored = None THEN FALSE
                                       ELSE stored[1].token = token]
    /\ UNCHANGED <<tokens, generated, lastGenerated, now, outsideCsrf>>

\* validateToken (lines 531-539); token is one that was generated, or 0.
validateToken(sessionId, token) ==
    /\ token <= generated
    /\ LET stored == tokens[sessionId]
       IN  csrfResult' = [op |-> "validateToken", sessionId |-> sessionId,
                          token |-> token,
                          returned |-> IF stored = None \/ now > stored[1].expires
                                       THEN FALSE
                                       ELSE stored[1].token = token]
    /\ UNCHANGED <<tokens, generated, lastGenerated, now, outsideCsrf>>

\* Time passes between two calls: a millisecond, or the life of a token.  The
\* clock stays within MaxNow ms of 0 or of one token life.
Elapse(ms) ==
    /\ now + ms <= TokenLifetimeMs + MaxNow
    /\ (now + ms) % TokenLifetimeMs <= MaxNow
    /\ now' = now + ms
    /\ UNCHANGED <<ialabVars, cacheVars, limiterVars, csrfVars, sessionVars,
                   workerVars, batchVars>>

CsrfNext ==
    \/ \E sessionId \in SessionIds : generateToken(sessionId)
    \/ \E sessionId \in SessionIds, token \in TokenValues :
          validateToken(sessionId, token)
    \/ \E ms \in {1, TokenLifetimeMs} : Elapse(ms)
CsrfSpec == Init /\ [][CsrfNext]_vars

\* ---------------------------------------------------------- SessionManager
\* A timer field holds null or a timer handle; the timer is armed until it
\* fires or is cleared.
Armed(timer) == timer # None /\ timer[1].status = "armed"
ClearTimeout(timer) ==
    IF Armed(timer) THEN Some([timer[1] EXCEPT !.status = "cleared"]) ELSE timer

\* resetTimers (lines 664-682): the timers the fields hold are cleared and
\* replaced by new ones.
ResetTimers ==
    /\ warningTimer' = Some([due |-> now + sessionTimeout - warningTime,
                             status |-> "armed"])
    /\ sessionTimer' = Some([due |-> now + sessionTimeout, status |-> "armed"])

\* startSession (lines 656-659).
startSession ==
    /\ listeners < MaxListeners
    /\ ResetTimers
    /\ listeners' = listeners + 1
    /\ monitoring' = TRUE
    /\ sessionNotice' = "none"
    /\ UNCHANGED <<now, outsideSession>>

\* A mousedown, keypress, scroll or touchstart on the document: every
\* listener registered at lines 688-690 calls resetTimers.
Activity ==
    /\ listeners > 0
    /\ ResetTimers
    /\ sessionNotice' = "none"
    /\ UNCHANGED <<listeners, monitoring, now, outsideSession>>

\* The warning timer fires (lines 670-675).
WarningFires ==
    /\ Armed(warningTimer)
    /\ now = warningTimer[1].due
    /\ warningTimer' = Some([warningTimer[1] EXCEPT !.status = "fired"])
    /\ sessionNotice' = "warning"
    /\ UNCHANGED <<sessionTimer, listeners, monitoring, now, outsideSession>>

\* The session timer fires: endSession (lines 679-681, 696-705).
SessionExpires ==
    /\ Armed(sessionTimer)
    /\ now = sessionTimer[1].due
    /\ sessionTimer' = Some([sessionTimer[1] EXCEPT !.status = "fired"])
    /\ sessionNotice' = "expired"
    /\ UNCHANGED <<warningTimer, listeners, monitoring, now, outsideSession>>

\* clearSession (lines 710-713).
clearSession ==
    /\ sessionTimer' = ClearTimeout(sessionTimer)
    /\ warningTimer' = ClearTimeout(warningTimer)
    /\ monitoring' = FALSE
    /\ sessionNotice' = "none"
    /\ UNCHANGED <<listeners, now, outsideSession>>

\* warningTime ms pass; a timer fires when it is due, not later.
SessionElapse ==
    /\ now + warningTime <= MaxSessionTicks * warningTime
    /\ Armed(warningTimer) => now + warningTime <= warningTimer[1].due
    /\ Armed(sessionTimer) => now + warningTime <= sessionTimer[1].due
    /\ now' = now + warningTime
    /\ UNCHANGED <<ialabVars, cacheVars, limiterVars, csrfVars, sessionVars,
                   workerVars, batchVars>>

SessionNext ==
    \/ startSession
    \/ Activity
    \/ WarningFires
    \/ SessionExpires
    \/ clearSession
    \/ SessionElapse
SessionSpec == Init /\ [][SessionNext]_vars

\* ----------------------------------------------------------- WorkerManager
\* Settling the promise of call c: resolve and reject do nothing on a promise
\* that is settled.
Settle(t, c, reason, request) ==
    IF t[c].status = "pending"
    THEN [t EXCEPT ![c].status = IF reason = "response" THEN "resolved" ELSE "rejected",
                   ![c].reason = reason,
                   ![c].settledWith = request]
    ELSE t

\* clearTimeout(timeout) in the handlers of call c (lines 437, 442).
ClearTaskTimeout(t, c) ==
    IF t[c].timeout = "armed" THEN [t EXCEPT ![c].timeout = "cleared"] ELSE t

\* executeTask (lines 427-451) with getWorker (lines 407-422): call c gets or
\* creates the worker, arms its timeout, replaces the worker's onmessage and
\* onerror by its own and posts its data.  The machine has at least as many
\* cores as there are worker names, so getWorker terminates no worker.
executeTask(c, name) ==
    /\ tasks[c].status = "idle"
    /\ \A b \in CallIds : b < c => tasks[b].status # "idle"
    /\ workers' = workers \cup {name}
    /\ handlerOwner' = [handlerOwner EXCEPT ![name] = c]
    /\ inbox' = [inbox EXCEPT ![name] = Append(@, c)]
    /\ tasks' = [tasks EXCEPT ![c] = [status |-> "pending", worker |-> name,
                                      reason |-> "none", settledWith |-> 0,
                                      timeout |-> "armed"]]
    /\ UNCHANGED outsideWorkers

\* The worker answers the oldest message it holds: the message event goes to
\* the onmessage handler the worker carries now (lines 436-439).
WorkerResponds(name) ==
    /\ inbox[name] # <<>>
    /\ inbox' = [inbox EXCEPT ![name] = Tail(@)]
    /\ tasks' = Settle(ClearTaskTimeout(tasks, handlerOwner[name]),
                       handlerOwner[name], "response", Head(inbox[name]))
    /\ UNCHANGED <<workers, handlerOwner, outsideWorkers>>

\* The worker fails on the oldest message it holds: the error event goes to
\* the onerror handler the worker carries now (lines 441-444).
WorkerFails(name) ==
    /\ inbox[name] # <<>>
    /\ inbox' = [inbox EXCEPT ![name] = Tail(@)]
    /\ tasks' = Settle(ClearTaskTimeout(tasks, handlerOwner[name]),
                       handlerOwner[name], "error", Head(inbox[name]))
    /\ UNCHANGED <<workers, handlerOwner, outsideWorkers>>

\* The 30 s timeout of call c fires (lines 432-434).
TaskTimeout(c) ==
    /\ tasks[c].timeout = "armed"
    /\ tasks' = Settle([tasks EXCEPT ![c].timeout = "fired"], c, "timeout", c)
    /\ UNCHANGED <<workers, handlerOwner, inbox, outsideWorkers>>

\* terminateWorker (lines 455-462): the worker answers no more.
terminateWorker(name) ==
    /\ name \in workers
    /\ workers' = workers \ {name}
    /\ handlerOwner' = [handlerOwner EXCEPT ![name] = 0]
    /\ inbox' = [inbox EXCEPT ![name] = <<>>]
    /\ UNCHANGED <<tasks, outsideWorkers>>

WorkersNext ==
    \/ \E c \in CallIds, name \in WorkerNames : executeTask(c, name)
    \/ \E name \in WorkerNames : WorkerResponds(name)
    \/ \E name \in WorkerNames : WorkerFails(name)
    \/ \E c \in CallIds : TaskTimeout(c)
    \/ \E name \in WorkerNames : terminateWorker(name)
WorkersSpec == Init /\ [][WorkersNext]_vars

\* -------------------------------------------------------- RequestOptimizer
Min(a, b) == IF a < b THEN a ELSE b

\* requests.slice(i, i + batchSize) (line 539) as positions in the list.
BatchAt(i) == (i + 1)..Min(i + batchSize, requestCount)

\* batch.map(r => r()) (line 540): every request of the batch is called.
StartBatch(status, i, size, count) ==
    [k \in RequestIds |->
        IF k \in (i + 1)..Min(i + size, count) THEN "inFlight" ELSE status[k]]

\* Promise.all (line 540) resolves when every promise of the batch has.
BatchDone_AnyResolved(i) ==
    \E k \in BatchAt(i) : requestStatus[k] = "resolved"
BatchDone(i) ==
    \A k \in BatchAt(i) : requestStatus[k] = "resolved"

\* batchRequests (lines 532-545) up to its first await: an empty list skips
\* the loop and returns [], otherwise the first batch is started.
batchRequests(count, size) ==
    /\ batchCall = "idle"
    /\ requestCount' = count
    /\ batchSize' = size
    /\ batchI' = 0
    /\ results' = <<>>
    /\ requestStatus' = StartBatch(requestStatus, 0, size, count)
    /\ batchCall' = IF count = 0 THEN "resolved" ELSE "running"
    /\ UNCHANGED outsideBatch

\* A request's promise resolves.
RequestResolves(k) ==
    /\ requestStatus[k] = "inFlight"
    /\ requestStatus' = [requestStatus EXCEPT ![k] = "resolved"]
    /\ UNCHANGED <<batchCall, requestCount, batchSize, batchI, results, outsideBatch>>

\* A request's promise rejects: Promise.all rejects with it, the await of
\* line 540 throws and the call rejects, unless it already has.
RequestRejects(k) ==
    /\ requestStatus[k] = "inFlight"
    /\ requestStatus' = [requestStatus EXCEPT ![k] = "rejected"]
    /\ batchCall' = IF batchCall = "running" THEN "rejected" ELSE batchCall
    /\ UNCHANGED <<requestCount, batchSize, batchI, results, outsideBatch>>

\* The await of line 540 returns: the batch's results are pushed in the
\* order of the batch (line 541), i advances by batchSize (line 538) and the
\* next batch is started, or the loop ends and results is returned.
BatchContinues ==
    /\ batchCall = "running"
    /\ BatchDone(batchI)
    /\ results' = results \o [j \in 1..Cardinality(BatchAt(batchI)) |-> batchI + j]
    /\ batchI' = batchI + batchSize
    /\ requestStatus' = StartBatch(requestStatus, batchI + batchSize, batchSize,
                                   requestCount)
    /\ batchCall' = IF batchI + batchSize < requestCount THEN "running" ELSE "resolved"
    /\ UNCHANGED <<requestCount, batchSize, outsideBatch>>

BatchNext ==
    \/ \E count \in 0..MaxRequests, size \in BatchSizes : batchRequests(count, size)
    \/ \E k \in RequestIds : RequestResolves(k)
    \/ \E k \in RequestIds : RequestRejects(k)
    \/ BatchContinues
BatchSpec == Init /\ [][BatchNext]_vars

RECURSIVE SumSizes(_)
SumSizes(c) == IF c = <<>> THEN 0 ELSE Head(c).size + SumSizes(Tail(c))

TypeOK ==
    /\ step \in {"hero", "capture", "loading", "contact", "results"}
    /\ isProcessing \in BOOLEAN
    /\ retryCount \in 0..MaxRuns
    /\ abortControllerRef \in 0..MaxRuns
    /\ aborted \subseteq RunIds
    /\ toasts \subseteq RunIds
    /\ started \in 0..MaxRuns

\* ================================================================ claims
Usable(resp) == resp.data # None /\ resp.data[1].simulatedImage # ""
Settled == event.response # None
SimulatedImages == {p.simulatedImage : p \in UsablePayloads}

\* C1: at every moment at most one handleCapture execution is in flight,
\* whatever the interleaving of submissions, retry-affordance activations and
\* run completions.
C1_AtMostOneRunInFlight == Cardinality(InFlight) <= 1

\* C2: a handleCapture call made while a run is in flight is rejected with the
\* notice and changes nothing: the exposed data, the retry counter (as the
\* caller left it), the abort controller ref and the runs in flight (with
\* their deadline timers) keep their values and no new run starts.
HandleCaptureCalled ==
    \/ \E pair \in PhotoPairs : Submit(pair[1], pair[2])
    \/ \E t \in RunIds : RetryClick(t)
C2_CallWhileInFlightChangesNothing ==
    [][(InFlight # {} /\ HandleCaptureCalled)
       => /\ notice' = "busy"
          /\ UNCHANGED <<step, restImage, smileImage, idealImage, analysis, metrics,
                         landmarks, simulationData, abortControllerRef, started>>
          /\ retryCount' = IF \E t \in RunIds : RetryClick(t)
                           THEN retryCount + 1 ELSE retryCount
          /\ \A r \in InFlight : runs'[r] = runs[r]]_vars

\* C3: on one photo pair the pipeline is executed at most three times through
\* the retry affordance, and the third consecutive fatal failure shows the
\* terminal notice, offers no retry and leaves the step at "capture".
C3_TerminalAfterThreeFailures ==
    /\ \A r \in RunIds : runs[r].chain <= 3
    /\ (event.kind = "failed" /\ event.chain = 3)
       => (notice = "error_terminal" /\ event.run \notin toasts /\ step = "capture")

\* C4: a run issues at most 3 remote calls, and none after a call has returned
\* a usable payload: the step in which a usable payload arrives ends the run.
C4_AtMostThreeInvocations ==
    /\ \A r \in RunIds : runs[r].calls <= 3
    /\ event.invokes <= 3
    /\ (Settled /\ Usable(event.response[1])) => event.kind = "completed"
C4_Witness ==
    /\ event.kind = "completed"
    /\ event.invokes = 3
    /\ Usable(event.response[1])

\* C5: a response with a non-empty simulatedImage is accepted on whichever
\* attempt it arrives: the run completes with the simulated image shown, the
\* ideal image the response's idealImage or else the simulated image, the
\* simulation data the response's fields, and no unavailable marker.
C5_UsablePayloadAccepted ==
    (Settled /\ Usable(event.response[1]))
    => LET p == event.response[1].data[1]
       IN  /\ event.kind = "completed"
           /\ step = "contact"
           /\ smileImage = p.simulatedImage
           /\ idealImage = (IF p.idealImage # "" THEN p.idealImage ELSE p.simulatedImage)
           /\ simulationData = Some([facialAnalysis |-> p.facialAnalysis,
                                     qualityScore |-> p.qualityScore,
                                     warnings |-> p.warnings])
           /\ simulationData # Some(UnavailableMarker)
           /\ notice # "simulation_unavailable"
C5_Witness ==
    /\ event.kind = "completed"
    /\ event.attempt = 2
    /\ event.response = Some([error |-> FALSE, data |-> Some(PayloadMinimal)])
    /\ idealImage = PayloadMinimal.simulatedImage

\* C6: when all 3 attempts fail, or the run's deadline fires before it ends,
\* the run still completes, degraded: simulation data exactly the unavailable
\* marker, the optimized smiling image as ideal image, step "contact"; and no
\* run fails once its simulation stage has begun.
C6_DegradedWhenExhaustedOrDeadline ==
    /\ (event.kind = "completed"
        /\ (event.deadlineFired \/ (event.invokes = 3 /\ ~Usable(event.response[1]))))
       => /\ simulationData = Some(UnavailableMarker)
          /\ idealImage \in OptimizedImages
          /\ step = "contact"
    /\ event.kind = "failed" => event.invokes = 0

\* C7: attempt k+1 is issued only after a backoff wait of k x 1000 ms, whatever
\* made attempt k fail (so never in the step in which attempt k settles), and
\* no wait follows the last attempt.
C7_LinearBackoffBetweenAttempts ==
    /\ (event.kind = "invoke" /\ event.attempt > 0) => ~Settled
    /\ event.kind = "wait" => (event.ms = 1000 * event.invokes /\ event.invokes < 3)

\* C8: once the run's cancellation signal has fired, no further remote call is
\* issued and no further backoff wait is begun.
C8_NoActivityAfterCancellation ==
    event.kind \in {"invoke", "wait"} => ~event.cancelled

\* C9: a response without error and without a usable payload counts as a
\* failed attempt: while attempts remain the loop goes on (a wait or the next
\* call follows) instead of the run ending with that response.
C9_NoPayloadCountsAsFailedAttempt ==
    (Settled /\ ~event.response[1].error /\ ~Usable(event.response[1])
     /\ event.attempt < 2)
    => event.kind \in {"invoke", "wait"}

\* C10: whenever a result is exposed (step "contact" or "results") it has
\* exactly one of two shapes: a full success (the simulated image, the ideal
\* image and the simulation data of one response) or the unavailable marker
\* (with the optimized smiling photo as ideal image and no simulated image
\* shown).
SuccessShape ==
    \E p \in UsablePayloads :
        /\ smileImage = p.simulatedImage
        /\ idealImage = (IF p.idealImage # "" THEN p.idealImage ELSE p.simulatedImage)
        /\ simulationData = Some([facialAnalysis |-> p.facialAnalysis,
                                  qualityScore |-> p.qualityScore,
                                  warnings |-> p.warnings])
UnavailableShape ==
    /\ simulationData = Some(UnavailableMarker)
    /\ idealImage \in OptimizedImages
    /\ smileImage \notin SimulatedImages
C10_OneOfTwoShapes ==
    step \in {"contact", "results"} => (SuccessShape /\ ~UnavailableShape)
                                        \/ (UnavailableShape /\ ~SuccessShape)

\* C11: a run that got past its local stages (it issued a remote call) never
\* fails: it returns by completing, and its completion sets the step to
\* "contact", whether the simulation succeeded, returned no usable payload,
\* failed every attempt or was cancelled by the deadline.
C11_RunPastLocalStagesEndsInContact ==
    /\ event.kind = "failed" => event.invokes = 0
    /\ event.kind = "completed" => step = "contact"
    /\ \A r \in RunIds : runs[r].calls > 0 => runs[r].pc \in {"invoke", "backoff"}
C11_Witness ==
    /\ event.kind = "completed"
    /\ event.invokes = 3
    /\ event.response = Some(ErrorResponse)
    /\ event.cancelled
    /\ step = "contact"

\* C12: a landmark-detection failure never aborts a run.  The two fallback
\* records are equal field for field; a decode step in which the landmarker is
\* absent, or detection throws or finds no face, leaves the run in flight with
\* that record as its metrics and no landmarks, and does not change the step;
\* a run ending without landmarks publishes that record and step "contact".
C12_DecodeWithoutLandmarks(r) ==
    \A sizes \in ImageSizePairs, det \in DetectOutcomes :
        (DecodeSettles(r, TRUE, TRUE, sizes[1], sizes[2], det)
         /\ (faceLandmarkerRef = None \/ det # "ok"))
        => /\ runs'[r].pc = "invoke"
           /\ runs'[r].calculatedMetrics = Some(FallbackMetricsNoLandmarker)
           /\ runs'[r].smileLandmarks = None
           /\ step' = step
           /\ event'.kind = "invoke"
C12_LandmarkFailureDegrades ==
    /\ [](FallbackMetricsCatch = FallbackMetricsNoLandmarker)
    /\ []((event.kind = "completed" /\ landmarks = None)
          => (metrics = Some(FallbackMetricsCatch) /\ step = "contact"))
    /\ [][\A r \in RunIds : C12_DecodeWithoutLandmarks(r)]_vars
C12_Witness ==
    /\ event.kind = "completed"
    /\ faceLandmarkerRef # None
    /\ landmarks = None
    /\ metrics = Some(FallbackMetricsCatch)
    /\ step = "contact"

\* C13: a run that completes while the landmarker is still absent (it was
\* absent for the whole run) publishes the literal fallback record (smileArc
\* "consonante", gingival 1 mm, midline 0 mm, buccal ratio 0.8, thirds
\* 0.33/0.34/0.33 balanced) and step "contact"; if its last remote call gave
\* no usable payload the simulation data is the unavailable marker.
C13_NoLandmarkerEndToEnd ==
    (event.kind = "completed" /\ faceLandmarkerRef = None)
    => /\ metrics # None
       /\ metrics[1].smileArc = "consonante"
       /\ metrics[1].gingival.mm = 1
       /\ metrics[1].midline.mm = 0
       /\ metrics[1].buccalRatio = 80
       /\ metrics[1].facialProportions =
              [upperThird |-> 33, middleThird |-> 34, lowerThird |-> 33,
               isBalanced |-> TRUE]
       /\ landmarks = None
       /\ step = "contact"
       /\ ~Usable(event.response[1]) => simulationData = Some(UnavailableMarker)
C13_Witness ==
    /\ event.kind = "completed"
    /\ faceLandmarkerRef = None
    /\ event.response = Some(ErrorResponse)
    /\ simulationData = Some(UnavailableMarker)
    /\ metrics = Some(FallbackMetricsNoLandmarker)

\* C14: a run in which an image does not decode fails in that step; the step
\* in which a run fails sets the step to "capture" with an error notice, the
\* run having issued no remote call; and analysis, metrics, landmarks,
\* idealImage and simulationData are written by no step other than a run's
\* completion and resetApplication, so a failed run leaves them as they were.
C14_DecodeFails(r) ==
    \A restOk \in BOOLEAN, smileOk \in BOOLEAN :
        (~(restOk /\ smileOk)
         /\ DecodeSettles(r, restOk, smileOk, <<1024, 768>>, <<1024, 768>>, "ok"))
        => (event'.kind = "failed" /\ event'.run = r)
C14_FailedRunLeavesResults ==
    /\ [](event.kind = "failed"
          => /\ step = "capture"
             /\ notice \in {"error_retry", "error_terminal"}
             /\ event.invokes = 0)
    /\ [][\A r \in RunIds : C14_DecodeFails(r)]_vars
    /\ [][(event'.kind # "completed" /\ ~resetApplication)
          => UNCHANGED <<analysis, metrics, landmarks, idealImage, simulationData>>]_vars
C14_Witness ==
    /\ event.kind = "failed"
    /\ step = "capture"
    /\ metrics # None
    /\ simulationData # None
    /\ idealImage # ""

\* C15: the step changes only along hero->capture, capture->loading,
\* loading->contact, loading->capture, contact->results and results->hero.
StepEdges ==
    {<<"hero", "capture">>, <<"capture", "loading">>, <<"loading", "contact">>,
     <<"loading", "capture">>, <<"contact", "results">>, <<"results", "hero">>}
C15_StepEdges ==
    [][step' # step => <<step, step'>> \in StepEdges]_vars

\* C16: every run in flight was started with both photos present (non-empty).
C16_RunsHaveBothPhotos ==
    \A r \in InFlight : runs[r].rest # "" /\ runs[r].smile # ""

\* C17: within a run the stages follow the fixed order.  A run's position
\* moves only optimize -> import -> decode -> invoke (<-> backoff), or out of
\* the run; past the optimize pair both optimized images are there (the pair
\* is joined); no remote call is issued before the decode/validate/detect/
\* metrics step, and a run that is calling or waiting has its metrics.
OptimizedOf(photo) == IF photo = "" THEN {""} ELSE {photo, Jpeg[photo]}
StageEdges ==
    {<<"idle", "optimize">>, <<"optimize", "import">>, <<"import", "decode">>,
     <<"decode", "invoke">>, <<"invoke", "backoff">>, <<"backoff", "invoke">>,
     <<"import", "done">>, <<"decode", "done">>, <<"invoke", "done">>}
C17_StagesInOrder ==
    /\ [](\A r \in RunIds :
            /\ runs[r].pc \in {"import", "decode", "invoke", "backoff"}
               => runs[r].optimizedSmile \in OptimizedOf(runs[r].smile)
            /\ runs[r].pc = "import"
               => runs[r].optimizedRest \in OptimizedOf(runs[r].rest)
            /\ runs[r].pc \in {"optimize", "import", "decode"}
               => (runs[r].calculatedMetrics = None /\ runs[r].calls = 0)
            /\ runs[r].pc \in {"invoke", "backoff"}
               => (runs[r].calculatedMetrics # None /\ runs[r].calls > 0))
    /\ [][\A r \in RunIds :
             runs'[r].pc # runs[r].pc => <<runs[r].pc, runs'[r].pc>> \in StageEdges]_vars
C17_Witness ==
    \E r \in RunIds :
        /\ runs[r].pc = "invoke"
        /\ runs[r].attempt = 0
        /\ runs[r].optimizedSmile = "jpegB"
        /\ runs[r].smileLandmarks = Some("lmB")
        /\ runs[r].calculatedMetrics = Some(computeMetrics("lmA", "lmB", 1024, 768))

\* C18: the deadline's firing changes nothing of a run but its timer (and
\* aborts the current controller): the run keeps its stage and locals and the
\* exposed state is untouched; and a run that completes after its deadline
\* fired still publishes its metrics and narrative and step "contact".
C18_DeadlineSparesLocalStages ==
    /\ []((event.kind = "completed" /\ event.deadlineFired)
          => /\ step = "contact"
             /\ metrics # None
             /\ analysis = AnalysisTextOf(metrics[1]))
    /\ [][\A r \in RunIds :
             TimerFires(r)
             => /\ runs' = [runs EXCEPT ![r].timer = "fired"]
                /\ UNCHANGED reactVars
                /\ notice' # "error_retry"]_vars
C18_Witness ==
    /\ event.kind = "invoke"
    /\ event.attempt = 0
    /\ event.deadlineFired
    /\ event.cancelled
    /\ runs[event.run].calculatedMetrics # None

\* C19: resetApplication sets the step to "hero" and returns both source
\* images, the ideal image, the analysis text, metrics, landmarks, contact data
\* and simulation data to their initial empty values and the retry counter
\* to 0.
C19_ResetClearsRun ==
    [][resetApplication
       => /\ step' = "hero"
          /\ restImage' = "" /\ smileImage' = "" /\ idealImage' = ""
          /\ analysis' = ""
          /\ metrics' = None /\ landmarks' = None
          /\ contactData' = None /\ simulationData' = None
          /\ retryCount' = 0]_vars
C19_Witness ==
    /\ step = "hero"
    /\ started > 0
    /\ retryCount = 0
    /\ restImage = "" /\ smileImage = "" /\ idealImage = "" /\ analysis = ""
    /\ metrics = None /\ landmarks = None
    /\ simulationData = None /\ contactData = None

\* C20: contact submission moves "contact" to "results" and stores the
\* contact record; source images, ideal image, analysis, metrics, landmarks,
\* simulation data, retry counter and processing flag keep their values.
C20_ContactSubmitFrame ==
    [][\A data \in Contacts :
          handleContactSubmit(data)
          => /\ step = "contact" /\ step' = "results"
             /\ contactData' = Some(data)
             /\ UNCHANGED <<restImage, smileImage, idealImage, analysis, metrics,
                            landmarks, simulationData, retryCount, isProcessing>>]_vars
C20_Witness ==
    /\ step = "results"
    /\ contactData = Some([email |-> "a@example.com"])
    /\ metrics # None
    /\ notice = "completed"

\* C21: optimizeImage resolves with its input unchanged when the image fails
\* to load or no 2D context exists, and the optimize step never fails a run:
\* whatever the two outcomes, the run goes on to the next stage with, for a
\* failed member, the photo it was given.
C21_OptimizeStep(r) ==
    \A ro \in LoadOutcomes, so \in LoadOutcomes :
        OptimizeSettles(r, ro[1], ro[2], so[1], so[2])
        => /\ runs'[r].pc = "import"
           /\ ~(ro[1] /\ ro[2]) => runs'[r].optimizedRest = runs[r].rest
           /\ ~(so[1] /\ so[2]) => runs'[r].optimizedSmile = runs[r].smile
           /\ event'.kind # "failed"
           /\ step' = step
C21_OptimizeNeverRejects ==
    /\ [](\A p \in Photos, b \in BOOLEAN :
            optimizeImage(p, FALSE, b) = p /\ optimizeImage(p, TRUE, FALSE) = p)
    /\ [][\A r \in RunIds : C21_OptimizeStep(r)]_vars
C21_Witness ==
    \E r \in RunIds :
        /\ runs[r].pc = "import"
        /\ runs[r].optimizedRest = "A"
        /\ runs[r].optimizedSmile = "jpegB"

\* C22: quality validation is advisory.  A decode step in which both images
\* decode continues the run whatever validateImageQuality returns for them:
\* the run issues its first remote call with the landmarks and metrics that
\* detection gives for those images, and nothing of the exposed state changes;
\* only the warning shown depends on the validation.
C22_DecodeStep(r) ==
    \A sizes \in ImageSizePairs, det \in DetectOutcomes :
        DecodeSettles(r, TRUE, TRUE, sizes[1], sizes[2], det)
        => LET d == DetectLandmarks(faceLandmarkerRef, det, runs[r].rest, runs[r].smile,
                                    sizes[1][1], sizes[1][2])
           IN  /\ runs'[r] = StartInvoke(r, [runs[r] EXCEPT
                                               !.smileLandmarks = d.smileLandmarks,
                                               !.calculatedMetrics = Some(d.calculatedMetrics)], 0)
               /\ event'.kind = "invoke"
               /\ UNCHANGED reactVars
C22_ValidationIsAdvisory ==
    [][\A r \in RunIds : C22_DecodeStep(r)]_vars
C22_Witness ==
    /\ notice = "low_resolution"
    /\ event.kind = "invoke"
    /\ event.attempt = 0
    /\ runs[event.run].calculatedMetrics # None

\* C23: every run that passed the entry guard returns (given that each promise
\* it awaits settles): it does not stay in flight forever; and the step in
\* which it returns leaves the step at "contact" or "capture", the processing
\* flag cleared and the abort controller ref released.
C23_RunsLeaveProcessing ==
    /\ \A r \in RunIds : (r \in InFlight) ~> (runs[r].pc = "done")
    /\ [](event.kind \in {"completed", "failed"}
          => /\ step \in {"contact", "capture"}
             /\ ~isProcessing
             /\ abortControllerRef = 0
             /\ runs[event.run].pc = "done")
C23_Witness ==
    /\ event.kind = "failed"
    /\ step = "capture"
    /\ ~isProcessing
    /\ abortControllerRef = 0
    /\ runs[event.run].pc = "done"
    /\ InFlight = {}

\* C24: activating the retry affordance of a failed run starts a run on
\* exactly that run's rest and smile images, with the step at "loading" and
\* the processing flag set, and adds exactly one to the retry counter; the
\* counter decreases in no step other than a reset.
C24_RetryStep(t) ==
    RetryClick(t)
    => /\ step' = "loading"
       /\ isProcessing'
       /\ restImage' = runs[t].rest
       /\ smileImage' = runs[t].smile
       /\ started' = started + 1
       /\ runs'[started'].pc = "optimize"
       /\ runs'[started'].rest = runs[t].rest
       /\ runs'[started'].smile = runs[t].smile
       /\ retryCount' = retryCount + 1
C24_RetryReentersWithSameImages ==
    /\ [][\A t \in RunIds : C24_RetryStep(t)]_vars
    /\ [][retryCount' < retryCount => resetApplication]_vars
C24_Witness ==
    \E r \in RunIds :
        /\ runs[r].chain = 2
        /\ runs[r].pc = "optimize"
        /\ runs[r].rest = ""
        /\ restImage = ""
        /\ retryCount = 1
        /\ step = "loading"

\* C25: the analysis text is a function of the metrics record alone: whenever
\* results are on display the text is the value of the chain
\* analyzeFaceCharacteristics, generateSmileRecommendations,
\* generateAnalysisText on the published record (so a second invocation on
\* that record gives the same text), two runs with the same landmarks hold the
\* same record, and the two fallback records give the same text.
C25_ChainOf(m) ==
    generateAnalysisText(analyzeFaceCharacteristics(m), m,
        generateSmileRecommendations(analyzeFaceCharacteristics(m), m))
C26_ExposedDataComplete ==
    step \in {"contact", "results"}
    => /\ metrics # None
       /\ analysis = AnalysisTextOf(metrics[1])
       /\ idealImage # ""
       /\ simulationData # None
C26_Witness ==
    /\ step = "results"
    /\ metrics = Some(FallbackMetricsCatch)
    /\ idealImage = "jpegB"
    /\ simulationData = Some(UnavailableMarker)
    /\ contactData # None

\* C27: in every reachable state the retry counter lies between 0 and the cap
\* MAX_RETRY_ATTEMPTS, whatever failures, retry activations, submissions and
\* resets occur.
C27_RetryCountWithinCap == retryCount \in 0..MAX_RETRY_ATTEMPTS

\* C28: a deadline timer is armed only while its run is in flight (it is
\* disarmed when the run ends), and a deadline that fires aborts no
\* controller other than the one created for its own run: never the one a
\* later run hands to its remote call.
C28_DeadlineAbortsOwnRunOnly ==
    /\ [](\A r \in RunIds : runs[r].timer = "armed" => r \in InFlight)
    /\ [][\A r \in RunIds : TimerFires(r) => aborted' \subseteq aborted \cup {r}]_vars

\* C29: the landmarker initialization started on mount is the only one that
\* starts without the user: an attempt that fails leaves the initialization
\* failed, and a further attempt begins only by the retry action after a
\* failure; the ref holds a handle exactly when an attempt has succeeded; and
\* while none has, a run that reaches the metrics stage holds the fallback
\* record and no landmarks, and so does what it publishes.
C29_InitOnceThenManual ==
    /\ [](faceLandmarkerRef # None <=> landmarkerInit = "ready")
    /\ []((landmarkerInit # "ready" /\ event.kind = "invoke" /\ event.attempt = 0)
          => /\ runs[event.run].calculatedMetrics = Some(FallbackMetricsNoLandmarker)
             /\ runs[event.run].smileLandmarks = None)
    /\ []((landmarkerInit # "ready" /\ event.kind = "completed")
          => /\ metrics = Some(FallbackMetricsNoLandmarker)
             /\ landmarks = None)
    /\ [][InitSettles(FALSE) => landmarkerInit' = "failed"]_vars
    /\ [][(landmarkerInit # "pending" /\ landmarkerInit' = "pending")
          => (landmarkerInit = "failed" /\ InitRetry)]_vars
C29_Witness ==
    /\ landmarkerInit = "failed"
    /\ faceLandmarkerRef = None
    /\ event.kind = "completed"
    /\ step = "contact"
    /\ metrics = Some(FallbackMetricsNoLandmarker)
    /\ landmarks = None

\* C30: after any sequence of set, get, delete and clear the recorded total
\* and the sum of the stored entries' sizes are at most maxSize; and a set of
\* an item larger than maxSize leaves the entries and the total as they were.
C30_SetStep(key, data, size) ==
    (CacheManager_set(key, data, size)
     /\ (IF size # 0 THEN size ELSE estimateSize(data)) > config.maxSize)
    => UNCHANGED <<cache, totalSize>>
C30_TotalWithinMaxSize ==
    /\ [](totalSize <= config.maxSize /\ SumSizes(cache) <= config.maxSize)
    /\ [][\A key \in CacheKeys, a \in SetArgs : C30_SetStep(key, a[1], a[2])]_vars
C30_Witness ==
    /\ cacheResult.op = "set_refused"
    /\ Len(cache) = 2
    /\ totalSize = config.maxSize
    /\ SumSizes(cache) = config.maxSize

\* C31: totalSize equals the sum of the sizes of the entries stored, after
\* any sequence of set (a replacement included), get (the removal of an
\* expired entry included), delete, eviction and clear.
C31_TotalIsSumOfSizes == totalSize = SumSizes(cache)
C31_Witness ==
    /\ cacheResult.op = "get_expired"
    /\ Len(cache) = 1
    /\ totalSize = cache[1].size
    /\ totalSize > 0

\* C32: set terminates for every key (the empty string included) and every
\* item size not above maxSize: the make-space loop never spins without
\* removing an entry.
C32_SetTerminates == ~hung

\* C33: in a set that returns, the entries evicted (those of other keys that
\* are gone afterwards) are the ones the strategy ranks first: each has a
\* smaller lastAccessed (LRU), frequency (LFU) or timestamp (FIFO) than every
\* entry that stays, or an equal one and an earlier place; and no more are
\* evicted than the new item needs: with the last of them still stored the
\* entries would exceed maxSize.
C33_Rank(e) ==
    IF config.strategy = "LRU" THEN e.lastAccessed
    ELSE IF config.strategy = "LFU" THEN e.frequency
    ELSE e.timestamp
C33_SetStep(key, data, size) ==
    (CacheManager_set(key, data, size) /\ cacheResult'.op = "set")
    => LET evicted == {i \in 1..Len(cache) :
                          cache[i].key # key /\ ~Has(cache', cache[i].key)}
           kept == {i \in 1..Len(cache) :
                       cache[i].key # key /\ Has(cache', cache[i].key)}
       IN  /\ \A i \in evicted, j \in kept :
                 \/ C33_Rank(cache[i]) < C33_Rank(cache[j])
                 \/ (C33_Rank(cache[i]) = C33_Rank(cache[j]) /\ i < j)
           /\ evicted # {}
              => \E i \in evicted : SumSizes(cache') + cache[i].size > config.maxSize
C33_EvictionFollowsStrategy ==
    [][\A key \in CacheKeys, a \in SetArgs : C33_SetStep(key, a[1], a[2])]_vars

\* C34: get returns null for a key that is absent or whose entry is older
\* than maxAge, and the expired entry is removed with its size taken off the
\* total; otherwise it returns the entry's data, sets its lastAccessed to the
\* present and adds one to its frequency, and changes nothing else.  The data
\* and timestamp of an entry are those of the last set stored for its key:
\* a set that stores writes them, and no other call changes them.
C34_GetStep(key) ==
    CacheManager_get(key)
    => IF Has(cache, key) /\ now - EntryOf(cache, key).timestamp <= config.maxAge
       THEN /\ cacheResult'.value = Some(EntryOf(cache, key).data)
            /\ Len(cache') = Len(cache)
            /\ \A i \in 1..Len(cache) :
                  cache'[i] = IF cache[i].key = key
                              THEN [cache[i] EXCEPT !.lastAccessed = now,
                                                    !.frequency = @ + 1]
                              ELSE cache[i]
            /\ totalSize' = totalSize
       ELSE /\ cacheResult'.value = None
            /\ cache' = Without(cache, key)
            /\ totalSize' = totalSize - (IF Has(cache, key)
                                         THEN EntryOf(cache, key).size ELSE 0)
C34_Stores(key) ==
    \E a \in SetArgs :
        /\ CacheManager_set(key, a[1], a[2])
        /\ cacheResult'.op = "set"
        /\ EntryOf(cache', key).data = a[1]
        /\ EntryOf(cache', key).timestamp = now
C34_KeepsValue(key) ==
    (Has(cache, key) /\ Has(cache', key))
    => \/ C34_Stores(key)
       \/ /\ EntryOf(cache', key).data = EntryOf(cache, key).data
          /\ EntryOf(cache', key).timestamp = EntryOf(cache, key).timestamp
C34_GetNeverServesExpired ==
    /\ [][\A key \in CacheKeys : C34_GetStep(key)]_vars
    /\ [][\A key \in CacheKeys : C34_KeepsValue(key)]_vars
    /\ [][\A key \in CacheKeys :
             (~Has(cache, key) /\ Has(cache', key)) => C34_Stores(key)]_vars
C34_Witness ==
    /\ cacheResult.op = "get"
    /\ cacheResult.value = Some("xyz")
    /\ Has(cache, cacheResult.key)
    /\ now - EntryOf(cache, cacheResult.key).timestamp = config.maxAge
    /\ EntryOf(cache, cacheResult.key).lastAccessed = now
    /\ EntryOf(cache, cacheResult.key).frequency = 1

\* C35: for an identifier whose configuration has maxRequests >= 1, at most
\* maxRequests calls of checkLimit return true within one window (from the
\* first admitted request until its resetTime, the ends included), and a call
\* made when no window is open (none was opened, or the present is strictly
\* after its end) is admitted and opens a window that ends windowMs later.
C35_CheckStep(id) ==
    (checkLimit(ConfigOf(id)) /\ ~WindowOpen(id))
    => /\ limiterResult'.returned
       /\ limiterWindow'[id] = Some([end |-> now + ConfigOf(id).windowMs, admitted |-> 1])
       /\ requests'[id] = Some([count |-> 1, resetTime |-> now + ConfigOf(id).windowMs])
C35_AtMostMaxRequestsPerWindow ==
    /\ [](\A id \in Identifiers :
             limiterWindow[id] # None
             => limiterWindow[id][1].admitted <= ConfigOf(id).maxRequests)
    /\ [][\A id \in Identifiers : C35_CheckStep(id)]_vars
C35_Witness ==
    /\ limiterResult = [op |-> "checkLimit", identifier |-> "api", returned |-> FALSE]
    /\ limiterWindow["api"] = Some([end |-> 2, admitted |-> LimiterMaxRequests])
    /\ now = 2

\* C36: a checkLimit call that returns false leaves the requests map as it
\* was; a checkLimit or clearLimit call for one identifier leaves the count
\* and resetTime of every other identifier as they were; and clearLimit(id)
\* removes the record of id, so that the next checkLimit for id is admitted
\* with count 1 and a window that ends windowMs after that call.
C36_CallStep(id) ==
    /\ (checkLimit(ConfigOf(id)) /\ ~limiterResult'.returned)
       => UNCHANGED requests
    /\ (checkLimit(ConfigOf(id)) \/ clearLimit(id))
       => \A other \in Identifiers \ {id} : requests'[other] = requests[other]
    /\ clearLimit(id) => requests'[id] = None
    /\ (checkLimit(ConfigOf(id)) /\ requests[id] = None)
       => /\ limiterResult'.returned
          /\ requests'[id] = Some([count |-> 1,
                                   resetTime |-> now + ConfigOf(id).windowMs])
C36_RejectedAndOtherUnchanged ==
    [][\A id \in Identifiers : C36_CallStep(id)]_vars
C36_Witness ==
    /\ limiterResult = [op |-> "clearLimit", identifier |-> "api", returned |-> FALSE]
    /\ requests["api"] = None
    /\ requests["upload"] = Some([count |-> 1, resetTime |-> 1])
    /\ now = 1

\* C37: validateToken(sessionId, token) returns true exactly when token is
\* the token generated last for that session and no more than one hour has
\* passed since it was generated; so a token is no longer accepted once a
\* newer one has been generated for its session.
C37_Valid(sessionId, token) ==
    /\ lastGenerated[sessionId] # None
    /\ token = lastGenerated[sessionId][1].token
    /\ now - lastGenerated[sessionId][1].at <= TokenLifetimeMs
C37_TokenValidIffLatestAndFresh ==
    [][\A sessionId \in SessionIds, token \in TokenValues :
          validateToken(sessionId, token)
          => (csrfResult'.returned <=> C37_Valid(sessionId, token))]_vars
C37_Witness ==
    /\ csrfResult.op = "validateToken"
    /\ csrfResult.returned
    /\ csrfResult.token = 2
    /\ lastGenerated[csrfResult.sessionId] = Some([token |-> 2, at |-> 1])
    /\ now = TokenLifetimeMs + 1

\* C38: after clearSession has returned and until startSession is called
\* again, no inactivity warning and no session-expiry notice is shown,
\* whatever activity events occur in between.
C38_ClearSessionStopsMonitoring ==
    [][(WarningFires \/ SessionExpires) => monitoring]_vars

\* C39: the promise of an executeTask call settles with the response to its
\* own request, with the error of its own request or with its own timeout:
\* never with the response or the error of another call's request, also when
\* two calls for the same worker name are in flight at once.
C39_OwnResponseOnly ==
    \A c \in CallIds : tasks[c].status \in {"resolved", "rejected"}
                       => tasks[c].settledWith = c

\* C40: batchRequests returns the results in the order of the request list;
\* a request is started only when every request of the batches before its
\* own has resolved; at most batchSize requests are in flight; when a request
\* has rejected the call is rejected, and a rejected call starts no request.
C40_InFlight == {k \in RequestIds : requestStatus[k] = "inFlight"}
C40_BatchStart(k) == ((k - 1) \div batchSize) * batchSize
C40_BatchedInOrder ==
    /\ [](/\ results = [k \in 1..Len(results) |-> k]
          /\ batchCall = "resolved" => Len(results) = requestCount
          /\ \A k \in RequestIds :
                requestStatus[k] # "notStarted"
                => \A j \in 1..C40_BatchStart(k) : requestStatus[j] = "resolved"
          /\ Cardinality(C40_InFlight) <= batchSize
          /\ (\E k \in RequestIds : requestStatus[k] = "rejected")
             => batchCall = "rejected")
    /\ [][batchCall = "rejected"
          => \A k \in RequestIds :
                requestStatus[k] = "notStarted" => requestStatus'[k] = "notStarted"]_vars
C40_Witness ==
    /\ batchCall = "resolved"
    /\ batchSize > 1
    /\ requestCount > 2 * batchSize
    /\ Len(results) = requestCount

====
